---------------------------- MODULE Spec2Model ----------------------------
(***************************************************************************)
(* A model of the YEI monitor.                                             *)
(*   Spec       the event-poll loop of YEIMonitor with                     *)
(*              ContractManager.get_all_events                             *)
(*   SpecEvent  the event handler with the liquidity checks and the calls  *)
(*              it makes to the alert dispatcher                           *)
(*   SpecAlert  AlertManager.send_alert's delivery cascade                 *)
(*   SpecDecode one log through the two tiers of decoding                  *)
(*   SpecRun    async_main: initialize, the poll and state-check loops as  *)
(*              tasks, the heartbeat                                       *)
(***************************************************************************)
EXTENDS Integers, Sequences, FiniteSets, TLC

VARIABLES
    \* ---- the chain behind the ledger gateway ----
    head,               \* the chain's current block height
    chainLogs,          \* the logs the watched contract has emitted
    \* ---- YEIMonitor.monitor_implementation_events ----
    last_checked_block, \* self.last_checked_block
    pc,                 \* the poller's position in its loop
    current_block,      \* the head read at the top of the cycle
    from_block,         \* get_all_events' from_block
    to_block,           \* get_all_events' to_block, after its cap
    kindIdx,            \* index into key_events of the kind fetched next
    all_events,         \* get_all_events' all_events / the poller's events
    \* ---- history of the current cycle and of the run ----
    queriedTo,          \* the toBlock of every log query made in the cycle
    fetchedKinds,       \* the kinds whose logs were fetched in the cycle
    failed,             \* the kinds whose filter or log fetch failed
    handled,            \* every event handed to the handler, in order
    prevCursor,         \* the cursor before the last advance
    advanced,           \* the cycle that just ended moved the cursor
    failures,           \* failures injected so far, of the gateway or in the handler
    h0,                 \* the head read by initialize()
    growths,            \* how many times the chain has grown
    evIdx,              \* index into all_events of the event handled next
    \* ---- YEIMonitor.handle_implementation_event ----
    config,             \* self.config: the flag and the two thresholds
    hpc,                \* the handler's position
    event,              \* the event being handled
    asset_liquidity_data, \* asset -> snapshot, from _get_asset_liquidity_data
    assetIdx,           \* check_liquidity: index of the asset evaluated next
    calls,              \* the send_alert calls made for the event, in order
    evals,              \* check_liquidity: what was evaluated per asset
    reads,              \* the get_asset_liquidity calls made for the event
    \* ---- AlertManager.send_alert ----
    apc,                \* send_alert's position
    bark_url,           \* self.bark_url is not empty
    alert,              \* the arguments of the call in progress
    attempts,           \* the delivery attempts of the call, in order
    result,             \* what the call returned
    alertCalls,         \* send_alert calls made so far
    \* ---- async_main, YEIMonitor.run and its tasks ----
    mainPc,             \* async_main's position
    runPc,              \* the position of run() and of initialize()
    pollTask,           \* monitor_implementation_events as a task
    checkTask,          \* periodic_check as a task
    checkPc,            \* periodic_check's position in its loop
    heartbeatTask,      \* HeartbeatMonitor.start as a task
    heartbeatPc,        \* HeartbeatMonitor.start's position in its loop
    state,              \* self.state, the ContractState
    now,                \* int(datetime.now().timestamp())
    runAlerts,          \* the alerts sent by initialize, run and the checks
    lastRaised,         \* where the last exception of a loop body was raised
    lastRead,           \* the address the last check read
    lastChanged,        \* what update_implementation returned to that check
    confirmation,       \* the addresses the last confirmation alert reported
    checks,             \* check_contract_state calls that reached the end of their try block
    initialized,        \* what initialize() returned
    hour,               \* datetime.now().hour
    sent,               \* HeartbeatMonitor's morning, noon and evening flags
    \* ---- decoding one log under the six kinds ----
    hexPrefixed,        \* HexBytes.hex() gives a "0x" prefix in this build
    rawLog,             \* the log being decoded
    dpc,                \* the decoding's position
    dIdx,               \* index into key_events of the kind tried next
    decoded,            \* the events the log has yielded so far
    \* ---- the pure functions of utils/amount_utils.py and check_liquidity ----
    cpc,                \* which function was applied last
    cin,                \* the arguments
    cout,               \* the result
    \* ---- the three tasks on the event loop, one await at a time ----
    tpc,                \* each task's position
    holder,             \* the task inside a synchronous request, or "none"
    cycle,              \* the poller's cycle: head read, events, events
                        \* done, alerts sent
    attemptLog,         \* the cycle's delivery attempts, begun and ended
    \* ---- HeartbeatMonitor._check_heartbeat on the wall clock ----
    wallClock,          \* datetime.now(): the day and the hour
    sentFlags,          \* morning_sent, noon_sent, evening_sent
    heartbeats          \* how many heartbeats were sent, by day and period

pollVars == <<head, chainLogs, last_checked_block, pc, current_block,
              from_block, to_block, kindIdx, all_events, queriedTo, fetchedKinds, failed,
              handled, prevCursor, advanced, failures, h0, growths, evIdx>>

eventVars == <<config, hpc, event, asset_liquidity_data, assetIdx, calls,
               evals, reads>>

alertVars == <<apc, bark_url, alert, attempts, result, alertCalls>>

runVars == <<mainPc, runPc, pollTask, checkTask, checkPc, heartbeatTask,
             heartbeatPc, state,
             now, runAlerts, lastRaised, lastRead, lastChanged, confirmation, checks,
             initialized, hour, sent>>

decodeVars == <<hexPrefixed, rawLog, dpc, dIdx, decoded>>

calcVars == <<cpc, cin, cout>>

taskVars == <<tpc, holder, cycle, attemptLog>>

hbVars == <<wallClock, sentFlags, heartbeats>>

\* the poller's variables other than the cursor
pollRest == <<head, chainLogs, pc, current_block, from_block, to_block,
              kindIdx, all_events, queriedTo, fetchedKinds, failed, handled,
              prevCursor, advanced, failures, h0, growths, evIdx>>

-----------------------------------------------------------------------------
(* Bounds of the model *)

\* how many times the chain grows in a run
MaxGrowths == 2
\* the most logs the contract emits in a run
MaxLogs == 2
\* the most gateway calls and handler sites that fail in a run
MaxFailures == 1
\* how many send_alert calls are followed through their cascade, in a run
\* of the dispatcher and in a cycle of the tasks' poller
MaxAlertCalls == 2
\* the most topics a log carries
MaxTopics == 2
\* how far the clock runs, in check intervals
MaxTime == 3
\* the most events one get_all_events call returns to the tasks' poller
MaxCycleEvents == 2
\* the calendar days the wall clock goes through
MaxDays == 2

-----------------------------------------------------------------------------
(* Program constants *)

\* the block-range cap of get_all_events and create_event_filter
BlockWindow == 1000

\* key_events of get_all_events, in its order
key_events_more ==
    <<"Supply", "Withdraw", "Borrow", "Repay", "LiquidationCall", "FlashLoan",
      "Other">>

key_events ==
    <<"Supply", "Withdraw", "Borrow", "Repay", "LiquidationCall", "FlashLoan">>

KeyKinds == {key_events[i] : i \in 1..Len(key_events)}

Min(a, b) == IF a <= b THEN a ELSE b

None == [none |-> TRUE]

-----------------------------------------------------------------------------
(* The ledger gateway *)

\* the kinds of log the contract emits in the model: two tracked kinds and
\* one the monitor does not track
EmittedKinds == {"Supply", "FlashLoan", "Other"}

\* a block_number answer: the head, or the head of a node one block behind
HeadReads == {h \in {head - 1, head} : h >= 0}

\* the head initialize() reads
InitHeads == {1}

\* how many blocks arrive between two steps of the monitor: one, or more
\* than a whole window
Growth == {1, BlockWindow + 2}

RECURSIVE SortedLogs(_)
SortedLogs(S) ==
    IF S = {} THEN <<>>
    ELSE LET m == CHOOSE l \in S : \A x \in S : l.blockNumber <= x.blockNumber
         IN  <<m>> \o SortedLogs(S \ {m})

\* w3.eth.get_logs(filter): the filter holds fromBlock, toBlock and address,
\* and no topic, so every log of the contract in the range is returned
get_logs(fromB, toB) ==
    SortedLogs({l \in chainLogs : fromB <= l.blockNumber /\ l.blockNumber <= toB})

-----------------------------------------------------------------------------
(* ContractManager.get_all_events and its helpers *)

\* create_event_filter: to_block = min(latest_block, from_block + 1000)
FilterToBlock(latest, fromB) == Min(latest, fromB + BlockWindow)

\* get_all_events: if to_block - from_block > 1000: to_block = from_block + 1000
CapToBlock(fromB, toB) ==
    IF toB - fromB > BlockWindow THEN fromB + BlockWindow ELSE toB

\* event_function().process_log(log): succeeds when the log's topics[0] is
\* the event's signature and its topics and data decode under the ABI
process_log(k, log) ==
    IF log.ntopics >= 1 /\ log.kind = k /\ log.abi
    THEN [event |-> k, blockNumber |-> log.blockNumber, structured |-> TRUE,
          shape |-> "abi"]
    ELSE None

\* the names of basic_decode_log's event_signatures table, whose keys are
\* the signatures written with a "0x" prefix
event_signatures ==
    {"Supply", "Withdraw", "Borrow", "Repay", "LiquidationCall", "FlashLoan"}

\* log['topics'][0].hex(): the signature's digits, with the prefix or not
TopicHex(signature) == [prefixed |-> hexPrefixed, digits |-> signature]

\* event_signatures.get(event_signature)
SignatureName(key) ==
    IF key.prefixed /\ key.digits \in event_signatures THEN key.digits
    ELSE "None"

\* basic_decode_log: None for a log without topics or with a topics[0] the
\* table does not hold; otherwise the event the table names, with args = {}
\* or, when the log has a second topic, args = {'address': ...}
basic_decode_log(log) ==
    IF log.ntopics = 0 THEN None
    ELSE IF SignatureName(TopicHex(log.kind)) = "None" THEN None
    ELSE [event |-> SignatureName(TopicHex(log.kind)),
          blockNumber |-> log.blockNumber,
          structured |-> FALSE,
          shape |-> IF log.ntopics > 1 THEN "basic_address" ELSE "basic_empty"]

DecodeUnder_anykind(k, log) ==
    IF process_log(k, log) # None THEN <<process_log(k, log)>>
    ELSE IF basic_decode_log(log) # None
         THEN <<basic_decode_log(log)>>
         ELSE <<>>

\* the body of "for log in logs" for the kind k: the structured event, and
\* when process_log raises the fallback event if it is of the kind k
DecodeUnder(k, log) ==
    IF process_log(k, log) # None THEN <<process_log(k, log)>>
    ELSE IF basic_decode_log(log) # None /\ basic_decode_log(log).event = k
         THEN <<basic_decode_log(log)>>
         ELSE <<>>

RECURSIVE DecodeLogs(_, _)
DecodeLogs(k, logs) ==
    IF logs = <<>> THEN <<>>
    ELSE DecodeUnder(k, Head(logs)) \o DecodeLogs(k, Tail(logs))

NextKindAfterFailure_abort(i) == Len(key_events) + 1

\* where the loop over key_events goes after a kind whose filter or log
\* fetch failed: the except clauses log the error and the loop continues
NextKindAfterFailure(i) == i + 1

\* where the loop goes after a kind that was fetched and decoded
NextKindAfterSuccess(i) == i + 1

-----------------------------------------------------------------------------
(* YEIMonitor.monitor_implementation_events *)

\* where an exception raised in a loop's body is caught; "escapes" when no
\* except clause inside the loop catches it
CatchClauses_noretry ==
    [block_number |-> "escapes",
     create_event_filter |-> "contract.py:94",
     get_logs |-> "contract.py:158",
     process_log |-> "contract.py:151",
     get_asset_liquidity |-> "monitor.py:138",
     build_event_message |-> "monitor.py:246",
     check_liquidity_alert |-> "monitor.py:557",
     notification_alert |-> "monitor.py:246",
     delivery |-> "alerts.py:76"]

CatchClauses_noinner ==
    [block_number |-> "monitor.py:79",
     create_event_filter |-> "contract.py:94",
     get_logs |-> "contract.py:158",
     process_log |-> "contract.py:151",
     get_asset_liquidity |-> "monitor.py:138",
     build_event_message |-> "monitor.py:79",
     check_liquidity_alert |-> "monitor.py:557",
     notification_alert |-> "monitor.py:79",
     delivery |-> "alerts.py:76"]

CatchClauses ==
    [block_number |-> "monitor.py:79",
     create_event_filter |-> "contract.py:94",
     get_logs |-> "contract.py:158",
     process_log |-> "contract.py:151",
     get_asset_liquidity |-> "monitor.py:138",
     build_event_message |-> "monitor.py:246",
     check_liquidity_alert |-> "monitor.py:557",
     notification_alert |-> "monitor.py:246",
     delivery |-> "alerts.py:76"]

\* the except clauses that lie inside handle_implementation_event and the
\* functions it calls
HandlerExcepts ==
    {"monitor.py:138", "monitor.py:246", "monitor.py:557", "alerts.py:76"}

\* where the handler's body and the calls it makes can raise
HandlerRaiseSites ==
    {"get_asset_liquidity", "build_event_message", "check_liquidity_alert",
     "notification_alert", "delivery"}

\* the poller after the handler was given an event and site raised in it:
\* the loop over the events goes on when the exception is caught inside the
\* handler; the cycle's except clause ends the cycle; otherwise the loop
\* is left
AfterHandler(site) ==
    IF site = "none" \/ CatchClauses[site] \in HandlerExcepts THEN "handle"
    ELSE IF CatchClauses[site] = "monitor.py:79" THEN "backoff"
    ELSE "terminated"

\* an event that was handed to the handler, with the site that raised
Handed(e, site) ==
    [event |-> e.event, blockNumber |-> e.blockNumber,
     structured |-> e.structured, shape |-> e.shape, raised |-> site]


FromBlock_same(last) == last

\* get_all_events(self.last_checked_block + 1, current_block)
FromBlock(last) == last + 1

HasNewBlocks_ne(cur, last) == cur # last

\* if current_block > self.last_checked_block
HasNewBlocks(cur, last) == cur > last

\* self.last_checked_block = current_block
NewCursor(cur, toB) == cur

-----------------------------------------------------------------------------
(* The chain grows whatever the monitor is doing *)

ChainGrow ==
    /\ \E inc \in Growth :
         /\ growths < MaxGrowths
         /\ growths' = growths + 1
         /\ head' = head + inc
         /\ \/ UNCHANGED chainLogs
            \/ /\ Cardinality(chainLogs) < MaxLogs
               /\ \E k \in EmittedKinds :
                    chainLogs' = chainLogs \cup
                        {[blockNumber |-> head + inc, kind |-> k, abi |-> TRUE,
                          ntopics |-> 2]}
    /\ UNCHANGED <<last_checked_block, pc, current_block, from_block,
                   to_block, kindIdx, all_events, queriedTo, fetchedKinds, failed, handled,
                   prevCursor, advanced, failures, h0, evIdx>>

-----------------------------------------------------------------------------
(* One step of the poll loop at a time: the chain moves between its awaits *)

\* current_block = await w3.eth.block_number raises: the cycle's except
\* clause logs it and the loop sleeps 30 s
PollReadHeadFails ==
    /\ pc = "idle"
    /\ failures < MaxFailures
    /\ failures' = failures + 1
    /\ pc' = "backoff"
    /\ advanced' = FALSE
    /\ UNCHANGED <<head, chainLogs, last_checked_block, current_block,
                   from_block, to_block, kindIdx, all_events, queriedTo, fetchedKinds, failed,
                   handled, prevCursor, h0, growths, evIdx>>

\* the head is read and there is something new: get_all_events is entered
PollReadHeadScan ==
    /\ pc = "idle"
    /\ \E cur \in HeadReads :
         /\ HasNewBlocks(cur, last_checked_block)
         /\ current_block' = cur
         /\ from_block' = FromBlock(last_checked_block)
         /\ to_block' = CapToBlock(FromBlock(last_checked_block), cur)
    /\ pc' = "scan"
    /\ kindIdx' = 1
    /\ all_events' = <<>>
    /\ evIdx' = 1
    /\ queriedTo' = {}
    /\ failed' = {}
    /\ fetchedKinds' = {}
    /\ advanced' = FALSE
    /\ UNCHANGED <<head, chainLogs, last_checked_block, handled, prevCursor,
                   failures, h0, growths>>

\* the head is read and is not beyond the cursor: nothing but the sleep
PollReadHeadIdle ==
    /\ pc = "idle"
    /\ \E cur \in HeadReads :
         /\ ~HasNewBlocks(cur, last_checked_block)
         /\ current_block' = cur
    /\ pc' = "sleep"
    /\ advanced' = FALSE
    /\ queriedTo' = {}
    /\ failed' = {}
    /\ fetchedKinds' = {}
    /\ all_events' = <<>>
    /\ evIdx' = 1
    /\ UNCHANGED <<head, chainLogs, last_checked_block, from_block, to_block,
                   kindIdx, handled, prevCursor, failures, h0, growths>>

ScanPc(i) == IF i > Len(key_events) THEN "handle" ELSE "scan"

\* create_event_filter raises on its head read and returns None: the kind
\* is passed over
ScanFilterFails ==
    /\ pc = "scan"
    /\ failures < MaxFailures
    /\ failures' = failures + 1
    /\ failed' = failed \cup {key_events[kindIdx]}
    /\ kindIdx' = NextKindAfterFailure(kindIdx)
    /\ pc' = ScanPc(kindIdx')
    /\ UNCHANGED <<head, chainLogs, last_checked_block, current_block,
                   from_block, to_block, all_events, queriedTo, fetchedKinds,
                   handled, prevCursor, advanced, h0, growths, evIdx>>

\* the filter is built and get_logs raises
ScanGetLogsFails ==
    /\ pc = "scan"
    /\ failures < MaxFailures
    /\ failures' = failures + 1
    /\ failed' = failed \cup {key_events[kindIdx]}
    /\ kindIdx' = NextKindAfterFailure(kindIdx)
    /\ pc' = ScanPc(kindIdx')
    /\ UNCHANGED <<head, chainLogs, last_checked_block, current_block,
                   from_block, to_block, all_events, queriedTo, fetchedKinds,
                   handled, prevCursor, advanced, h0, growths, evIdx>>

\* the filter is built on a fresh head read, the logs are fetched and decoded
ScanKind ==
    /\ pc = "scan"
    /\ \E latest \in HeadReads :
         LET k   == key_events[kindIdx]
             toB == FilterToBlock(latest, from_block)
         IN  /\ queriedTo' = queriedTo \cup {toB}
             /\ fetchedKinds' = fetchedKinds \cup {k}
             /\ all_events' =
                    all_events \o DecodeLogs(k, get_logs(from_block, toB))
    /\ kindIdx' = NextKindAfterSuccess(kindIdx)
    /\ pc' = ScanPc(kindIdx')
    /\ UNCHANGED <<head, chainLogs, last_checked_block, current_block,
                   from_block, to_block, failed, handled, prevCursor,
                   advanced, failures, h0, growths, evIdx>>

\* for event in events: await self.handle_implementation_event(event).
\* The handler's body may raise at one of its sites; the step after it is
\* the one AfterHandler gives
HandleEvent ==
    /\ pc = "handle"
    /\ evIdx <= Len(all_events)
    /\ \E site \in HandlerRaiseSites \cup {"none"} :
         /\ site # "none" => failures < MaxFailures
         /\ failures' = IF site = "none" THEN failures ELSE failures + 1
         /\ handled' = Append(handled, Handed(all_events[evIdx], site))
         /\ pc' = AfterHandler(site)
    /\ evIdx' = evIdx + 1
    /\ UNCHANGED <<head, chainLogs, last_checked_block, current_block,
                   from_block, to_block, kindIdx, all_events, queriedTo, fetchedKinds, failed,
                   prevCursor, advanced, h0, growths>>

\* self.last_checked_block = current_block
PollAdvance ==
    /\ pc = "handle"
    /\ evIdx > Len(all_events)
    /\ prevCursor' = last_checked_block
    /\ last_checked_block' = NewCursor(current_block, to_block)
    /\ advanced' = TRUE
    /\ pc' = "sleep"
    /\ UNCHANGED <<head, chainLogs, current_block, from_block, to_block,
                   kindIdx, all_events, queriedTo, fetchedKinds, failed, handled, failures,
                   h0, growths, evIdx>>

\* the locals of a cycle are dead once it has ended
EndCycle ==
    /\ pc' = "idle"
    /\ current_block' = last_checked_block
    /\ from_block' = last_checked_block
    /\ to_block' = last_checked_block
    /\ kindIdx' = 1
    /\ all_events' = <<>>
    /\ evIdx' = 1
    /\ queriedTo' = {}
    /\ failed' = {}
    /\ fetchedKinds' = {}
    /\ advanced' = FALSE
    /\ UNCHANGED <<head, chainLogs, last_checked_block, handled, prevCursor,
                   failures, h0, growths>>

\* await asyncio.sleep(15)
PollSleep ==
    /\ pc = "sleep"
    /\ EndCycle

\* await asyncio.sleep(30) in the cycle's except clause
PollBackoff ==
    /\ pc = "backoff"
    /\ EndCycle

\* the state initialize() leaves: the cursor is the head it read
InitPoll ==
    /\ head \in InitHeads
    /\ chainLogs = {}
    /\ h0 = head
    /\ last_checked_block = head
    /\ pc = "idle"
    /\ current_block = head
    /\ from_block = head
    /\ to_block = head
    /\ kindIdx = 1
    /\ all_events = <<>>
    /\ evIdx = 1
    /\ queriedTo = {}
    /\ failed = {}
    /\ fetchedKinds = {}
    /\ handled = <<>>
    /\ prevCursor = head
    /\ advanced = FALSE
    /\ failures = 0
    /\ growths = 0

\* the same, on a chain where the contract has emitted a log in the block
\* initialize() reads as the head
InitPollUsedChain ==
    /\ head \in InitHeads
    /\ chainLogs = {[blockNumber |-> head, kind |-> "Supply", abi |-> TRUE,
                     ntopics |-> 2]}
    /\ h0 = head
    /\ last_checked_block = head
    /\ pc = "idle"
    /\ current_block = head
    /\ from_block = head
    /\ to_block = head
    /\ kindIdx = 1
    /\ all_events = <<>>
    /\ evIdx = 1
    /\ queriedTo = {}
    /\ failed = {}
    /\ fetchedKinds = {}
    /\ handled = <<>>
    /\ prevCursor = head
    /\ advanced = FALSE
    /\ failures = 0
    /\ growths = 0

NextPoll ==
    \/ ChainGrow
    \/ PollReadHeadFails
    \/ PollReadHeadScan
    \/ PollReadHeadIdle
    \/ ScanFilterFails
    \/ ScanGetLogsFails
    \/ ScanKind
    \/ HandleEvent
    \/ PollAdvance
    \/ PollSleep
    \/ PollBackoff

-----------------------------------------------------------------------------
(* Raw token amounts: naturals written in base 10^6 as [hi, lo], so that   *)
(* the amounts the monitor meets (60000000000 and more) can be computed    *)
(* with exactly                                                            *)

AmtBase == 10^6

Amt(h, l) == [hi |-> h, lo |-> l]

AmtZero == Amt(0, 0)

AmtGE(a, b) == a.hi > b.hi \/ (a.hi = b.hi /\ a.lo >= b.lo)

AmtPos(a) == a.hi > 0 \/ a.lo > 0

AmtMul(a, n) ==
    LET p == a.lo * n
    IN  [hi |-> a.hi * n + p \div AmtBase, lo |-> p % AmtBase]

AmtAdd(a, b) ==
    LET t == a.lo + b.lo
    IN  [hi |-> a.hi + b.hi + t \div AmtBase, lo |-> t % AmtBase]

RECURSIVE Pow10(_)
Pow10(n) == IF n = 0 THEN 1 ELSE 10 * Pow10(n - 1)

-----------------------------------------------------------------------------
(* utils/amount_utils.py: TOKEN_DECIMALS, two of its entries.  A limit is  *)
(* the fraction limitNum / limitDen                                        *)

TOKEN_DECIMALS ==
    [a \in {"usdc", "wbtc"} |->
        IF a = "usdc"
        THEN [symbol |-> "USDC", decimals |-> 6, limitNum |-> 50000,
              limitDen |-> 1]
        ELSE [symbol |-> "WBTC", decimals |-> 8, limitNum |-> 1,
              limitDen |-> 2]]

\* the assets an event may name: two of the table and one that is not in it
Assets == {"usdc", "wbtc", "unlisted"}

\* the raw amounts an event may carry: 0, 49000000000, 50000000000 and
\* 60000000000
Amounts == {AmtZero, Amt(49000, 0), Amt(50000, 0), Amt(60000, 0)}

\* actual_amount = event_amount / (10 ** decimals); actual_amount >= limit,
\* multiplied out (every decimals of the table is at least 6)
ActualAmountAtLeastLimit(amount, info) ==
    AmtGE(AmtMul(amount, info.limitDen),
          Amt(info.limitNum * Pow10(info.decimals - 6), 0))

-----------------------------------------------------------------------------
(* utils/alerts.py: the signature of AlertManager.send_alert *)

SendAlertParams == {"message", "data", "is_high_risk"}

\* a call binds when every keyword it passes is a parameter; otherwise
\* Python raises TypeError at the call and send_alert's body never runs
SendAlertBinds(kw) == kw \subseteq SendAlertParams

NoAsset == "-"

AlertCall(tag, asset, high, voice, kw) ==
    [tag |-> tag, asset |-> asset, high |-> high, voice |-> voice, kw |-> kw,
     bound |-> SendAlertBinds(kw)]

-----------------------------------------------------------------------------
(* The events handle_implementation_event is given *)

\* _get_event_type
FundKinds == {"Supply", "Withdraw", "Borrow", "Repay", "LiquidationCall"}

HighRiskKinds == {"LiquidationCall", "FlashLoan"}

\* the args of a structurally decoded event, by the fields the handler reads
AbiArgs(kind, a1, a2, amt) ==
    IF kind = "LiquidationCall"
    THEN [collateralAsset |-> a1, debtAsset |-> a2, debtToCover |-> amt]
    ELSE IF kind = "FlashLoan"
         THEN [asset |-> a1, amount |-> amt]
         ELSE [reserve |-> a1, amount |-> amt]

\* shape "abi": process_log's event, args an attribute dictionary;
\* shape "basic_empty": basic_decode_log's event with args = {};
\* shape "basic_address": basic_decode_log's event with args = {'address': ..}
AbiEvent(kind, a1, a2, amt) ==
    [event |-> kind, shape |-> "abi", args |-> AbiArgs(kind, a1, a2, amt)]

BasicEvent(kind, shape) ==
    [event |-> kind, shape |-> shape, args |-> [address |-> NoAsset]]

\* hasattr(event.args, name): a dict has none of the names the handler asks
HasAttr(e, name) == e.shape = "abi" /\ name \in DOMAIN e.args

\* is_basic_event = not hasattr(event, 'args') or not event.args
IsBasicEvent(e) == e.shape = "basic_empty"

GetAssetAddresses_assetfirst(e) ==
    IF HasAttr(e, "asset") THEN <<e.args.asset>>
    ELSE IF HasAttr(e, "reserve") THEN <<e.args.reserve>>
    ELSE IF HasAttr(e, "collateralAsset") /\ HasAttr(e, "debtAsset")
         THEN <<e.args.collateralAsset, e.args.debtAsset>>
         ELSE <<>>

\* _get_asset_addresses
GetAssetAddresses(e) ==
    IF HasAttr(e, "reserve") THEN <<e.args.reserve>>
    ELSE IF HasAttr(e, "asset") THEN <<e.args.asset>>
    ELSE IF HasAttr(e, "collateralAsset") /\ HasAttr(e, "debtAsset")
         THEN <<e.args.collateralAsset, e.args.debtAsset>>
         ELSE <<>>

EventAmount_valuefirst(e) ==
    IF HasAttr(e, "value") THEN e.args.value
    ELSE IF HasAttr(e, "debtToCover") THEN e.args.debtToCover
    ELSE IF HasAttr(e, "amount") THEN e.args.amount
    ELSE AmtZero

\* event_amount of check_liquidity: amount, else debtToCover, else value,
\* else 0
EventAmount(e) ==
    IF HasAttr(e, "amount") THEN e.args.amount
    ELSE IF HasAttr(e, "debtToCover") THEN e.args.debtToCover
    ELSE IF HasAttr(e, "value") THEN e.args.value
    ELSE AmtZero

\* asset_address of the notification: reserve, else asset, else debtAsset
NotificationAsset(e) ==
    IF HasAttr(e, "reserve") THEN e.args.reserve
    ELSE IF HasAttr(e, "asset") THEN e.args.asset
    ELSE IF HasAttr(e, "debtAsset") THEN e.args.debtAsset
    ELSE NoAsset

\* event_amount of the notification: amount, else debtToCover, else value,
\* else 0
NotificationAmount(e) ==
    IF HasAttr(e, "amount") THEN e.args.amount
    ELSE IF HasAttr(e, "debtToCover") THEN e.args.debtToCover
    ELSE IF HasAttr(e, "value") THEN e.args.value
    ELSE AmtZero

\* _build_event_message raises AttributeError when it takes the structured
\* branch (not is_basic_event) and event.args is a dict
BuildEventMessageRaises(e) == ~IsBasicEvent(e) /\ e.shape # "abi"

\* the limit check of the notification and of check_liquidity
IsImportant(asset, amount) ==
    /\ asset # NoAsset
    /\ AmtPos(amount)
    /\ asset \in DOMAIN TOKEN_DECIMALS
    /\ ActualAmountAtLeastLimit(amount, TOKEN_DECIMALS[asset])

\* _should_send_notification
ShouldSendNotification(kind) ==
    config.NOTIFY_ALL_EVENTS \/ kind \in HighRiskKinds

-----------------------------------------------------------------------------
(* ContractManager.get_asset_liquidity *)

FailedRead == [fail |-> TRUE]

\* what the gateway answers to the reads of one get_asset_liquidity call
GatewayReads ==
    { [reserve |-> TRUE, supply |-> Amt(1000000, 0), vdebt |-> Amt(100000, 0),
       sdebt |-> AmtZero],
      [reserve |-> TRUE, supply |-> Amt(1000000, 0), vdebt |-> Amt(990000, 0),
       sdebt |-> AmtZero],
      [reserve |-> FALSE, supply |-> FailedRead, vdebt |-> FailedRead,
       sdebt |-> FailedRead],
      [reserve |-> TRUE, supply |-> FailedRead, vdebt |-> Amt(100000, 0),
       sdebt |-> AmtZero],
      [reserve |-> TRUE, supply |-> Amt(1000000, 0), vdebt |-> FailedRead,
       sdebt |-> Amt(990000, 0)] }

ReadOr0(x) == IF x = FailedRead THEN AmtZero ELSE x

get_asset_liquidity(asset, r) ==
    IF asset \notin DOMAIN TOKEN_DECIMALS THEN None
    ELSE IF ~r.reserve THEN None
    ELSE [totalSupply |-> ReadOr0(r.supply),
          totalBorrows |-> AmtAdd(ReadOr0(r.vdebt), ReadOr0(r.sdebt))]

\* one get_asset_liquidity call: in which stage of the handler, for which
\* position of the event's address list, what the gateway answered and what
\* the call returned
ReadOf(stage, idx, asset, r) ==
    [stage |-> stage, idx |-> idx, asset |-> asset, r |-> r,
     snap |-> get_asset_liquidity(asset, r)]

\* utilization_rate >= warn, with utilization_rate = borrows / supply * 100
\* when supply > 0 and 0 otherwise; warn in tenths of a percent
UtilizationAtLeast(snap, warn) ==
    IF AmtPos(snap.totalSupply)
    THEN AmtGE(AmtMul(snap.totalBorrows, 1000), AmtMul(snap.totalSupply, warn))
    ELSE warn <= 0

-----------------------------------------------------------------------------
(* YEIMonitor.check_liquidity *)

LiquidityChangeTriggered_scale(amount, supply, thr) ==
    IF AmtPos(supply) /\ AmtPos(amount)
    THEN AmtGE(AmtMul(amount, 10000), AmtMul(supply, thr))
    ELSE thr <= 0

\* liquidity_change_triggered: event_impact_percentage >= threshold, with
\* event_impact_percentage = amount / supply * 100 when both are positive
\* and 0 otherwise; thr in tenths of a percent
LiquidityChangeTriggered(amount, supply, thr) ==
    IF AmtPos(supply) /\ AmtPos(amount)
    THEN AmtGE(AmtMul(amount, 1000), AmtMul(supply, thr))
    ELSE thr <= 0

ReachesUtilizationCheck_dedent(triggered, alertReturned) ==
    triggered => alertReturned

\* the utilization check sits inside "if liquidity_change_triggered", after
\* the liquidity alert's send_alert has returned
ReachesUtilizationCheck(triggered, alertReturned) ==
    triggered /\ alertReturned

\* the keywords check_liquidity passes to send_alert
CheckLiquidityKw == {"message", "is_high_risk", "call_value"}

\* the send_alert calls of one asset's evaluation, in order: the second is
\* made only when the first has returned
AssetAlerts(asset, amount, snap) ==
    LET triggered == LiquidityChangeTriggered(amount, snap.totalSupply,
                        config.LIQUIDITY_CHANGE_THRESHOLD)
        important == IsImportant(asset, amount)
        first     == AlertCall("liquidity", asset, important, important,
                               CheckLiquidityKw)
        second    == AlertCall("utilization", asset, important, important,
                               CheckLiquidityKw)
        checked   == ReachesUtilizationCheck(triggered, first.bound)
        high      == UtilizationAtLeast(snap,
                        config.ASSET_UTILIZATION_WARNING_THRESHOLD)
    IN  (IF triggered THEN <<first>> ELSE <<>>)
        \o (IF checked /\ high THEN <<second>> ELSE <<>>)

\* the evaluation raised: a send_alert call did not bind
Raised(alerts) == \E i \in 1..Len(alerts) : ~alerts[i].bound

AssetEval(asset, amount, snap) ==
    LET triggered == LiquidityChangeTriggered(amount, snap.totalSupply,
                        config.LIQUIDITY_CHANGE_THRESHOLD)
    IN  [asset |-> asset, amount |-> amount, supply |-> snap.totalSupply,
         triggered |-> triggered,
         alerts |-> AssetAlerts(asset, amount, snap),
         utilHigh |-> UtilizationAtLeast(snap,
                        config.ASSET_UTILIZATION_WARNING_THRESHOLD),
         utilChecked |-> ReachesUtilizationCheck(triggered,
                            SendAlertBinds(CheckLiquidityKw))]

-----------------------------------------------------------------------------
(* YEIMonitor.handle_implementation_event, one await at a time *)

\* the handler is called with an event
Receive ==
    /\ hpc = "ready"
    /\ \E kind \in KeyKinds :
         \/ \E a1, a2 \in Assets : \E amt \in Amounts :
                event' = AbiEvent(kind, a1, a2, amt)
         \/ \E shape \in {"basic_empty", "basic_address"} :
                event' = BasicEvent(kind, shape)
    /\ hpc' = IF IsBasicEvent(event') THEN "message" ELSE "enrich"
    /\ asset_liquidity_data' = << >>
    /\ assetIdx' = 1
    /\ calls' = <<>>
    /\ evals' = <<>>
    /\ reads' = <<>>
    /\ UNCHANGED config

\* _get_asset_liquidity_data: one get_asset_liquidity per address, kept when
\* it is not None
Enrich ==
    /\ hpc = "enrich"
    /\ LET addrs == GetAssetAddresses(event)
       IN  \E rs \in [1..Len(addrs) -> GatewayReads] :
             LET got == {i \in 1..Len(addrs) :
                            get_asset_liquidity(addrs[i], rs[i]) # None}
                 last(a) == CHOOSE i \in got :
                               addrs[i] = a /\ \A j \in got : addrs[j] = a => j <= i
             IN  /\ asset_liquidity_data' =
                    [a \in {addrs[i] : i \in got} |->
                        get_asset_liquidity(a, rs[last(a)])]
                 /\ reads' = [i \in 1..Len(addrs) |->
                        ReadOf("enrich", i, addrs[i], rs[i])]
    /\ hpc' = "message"
    /\ UNCHANGED <<config, event, assetIdx, calls, evals>>

\* _build_event_message, then the choice between check_liquidity and the
\* notification; an exception goes to the inner except clause, which sends
\* the event-handling-error alert
Message ==
    /\ hpc = "message"
    /\ IF BuildEventMessageRaises(event)
       THEN /\ calls' = Append(calls, AlertCall("handler_error", NoAsset, FALSE,
                                               FALSE, {"message"}))
            /\ hpc' = "done"
       ELSE /\ calls' = calls
            /\ hpc' = IF /\ event.event \in FundKinds
                         /\ ~IsBasicEvent(event)
                         /\ DOMAIN asset_liquidity_data # {}
                      THEN "check" ELSE "notify"
    /\ UNCHANGED <<config, event, asset_liquidity_data, assetIdx, evals, reads>>

AfterAbsentAsset_return(next, n) == "notify"

\* check_liquidity, "if not current_liquidity_data: continue": the loop goes
\* to the next address, and check_liquidity returns when there is none
AfterAbsentAsset(next, n) == IF next > n THEN "notify" ELSE "check"

\* check_liquidity: the loop body for one asset, on a fresh snapshot; a
\* send_alert call that raises ends check_liquidity in its except clause
CheckAsset ==
    /\ hpc = "check"
    /\ LET addrs == GetAssetAddresses(event)
           asset == addrs[assetIdx]
       IN  \E r \in GatewayReads :
             LET snap   == get_asset_liquidity(asset, r)
                 alerts == AssetAlerts(asset, EventAmount(event), snap)
             IN  /\ reads' = Append(reads, ReadOf("check", assetIdx, asset, r))
                 /\ assetIdx' = assetIdx + 1
                 /\ IF snap = None
                    THEN /\ UNCHANGED <<calls, evals>>
                         /\ hpc' = AfterAbsentAsset(assetIdx', Len(addrs))
                    ELSE /\ calls' = calls \o alerts
                         /\ evals' = Append(evals,
                                       AssetEval(asset, EventAmount(event), snap))
                         /\ hpc' = IF Raised(alerts) \/ assetIdx' > Len(addrs)
                                   THEN "notify" ELSE "check"
    /\ UNCHANGED <<config, event, asset_liquidity_data>>

\* the keywords of the event notification
NotificationKw(important) ==
    IF important THEN {"message", "is_high_risk", "call_value"}
    ELSE {"message"}

\* the notification: the limit check, then send_alert; when that call raises
\* the inner except clause sends the event-handling-error alert
Notify ==
    /\ hpc = "notify"
    /\ IF ShouldSendNotification(event.event)
       THEN LET important == IsImportant(NotificationAsset(event),
                                         NotificationAmount(event))
                call == AlertCall("event", NotificationAsset(event), important,
                                  important, NotificationKw(important))
            IN  calls' = IF call.bound
                         THEN Append(calls, call)
                         ELSE calls \o <<call,
                                AlertCall("handler_error", NoAsset, FALSE, FALSE,
                                          {"message"})>>
       ELSE calls' = calls
    /\ hpc' = "done"
    /\ UNCHANGED <<config, event, asset_liquidity_data, assetIdx, evals, reads>>

\* the handler returns
Return ==
    /\ hpc = "done"
    /\ hpc' = "ready"
    /\ UNCHANGED <<config, event, asset_liquidity_data, assetIdx, calls, evals,
                   reads>>

\* thresholds in tenths of a percent: 5.0 and 80.0
ConfigInputs ==
    [NOTIFY_ALL_EVENTS : BOOLEAN,
     LIQUIDITY_CHANGE_THRESHOLD : {50},
     ASSET_UTILIZATION_WARNING_THRESHOLD : {800}]

InitEvent ==
    /\ config \in ConfigInputs
    /\ hpc = "ready"
    /\ event = BasicEvent("Supply", "basic_empty")
    /\ asset_liquidity_data = << >>
    /\ assetIdx = 1
    /\ calls = <<>>
    /\ evals = <<>>
    /\ reads = <<>>

NextEvent ==
    \/ Receive
    \/ Enrich
    \/ Message
    \/ CheckAsset
    \/ Notify
    \/ Return

-----------------------------------------------------------------------------
(* AlertManager.send_alert: the delivery cascade, one request at a time *)

\* what a request to the Bark server can end in: status 200, another
\* status, or an exception (connection error, timeout)
Outcomes == {"200", "non200", "exception"}

\* Python's value of a function that ends without "return <value>"
NoneValue == "None"

PostRaises_always(o) == TRUE

\* stage 1, the aiohttp POST: a status other than 200 raises inside the try
\* block, whose except clause starts stage 2; status 200 returns
PostRaises(o) == o # "200"

\* stage 2, the requests GET with parameters: status 200 returns; another
\* status is logged and the function ends; only an exception reaches the
\* except clause that holds stage 3
AfterGet(o) == IF o = "exception" THEN "simple" ELSE "returned"

\* __init__ builds bark_url from the key, empty when there is no key
NewAlertManager ==
    /\ apc = "new"
    /\ bark_url' \in BOOLEAN
    /\ apc' = "idle"
    /\ UNCHANGED <<alert, attempts, result, alertCalls>>

\* a caller awaits send_alert(message, data, is_high_risk)
SendAlertCall ==
    /\ apc = "idle"
    /\ alertCalls < MaxAlertCalls
    /\ alertCalls' = alertCalls + 1
    /\ \E h \in BOOLEAN, dt \in BOOLEAN :
          alert' = [is_high_risk |-> h, data |-> dt]
    /\ attempts' = <<>>
    /\ result' = "pending"
    /\ apc' = IF bark_url THEN "post" ELSE "end"
    /\ UNCHANGED bark_url

StagePost ==
    /\ apc = "post"
    /\ \E o \in Outcomes :
         /\ attempts' = Append(attempts, [stage |-> "POST", outcome |-> o])
         /\ apc' = IF PostRaises(o) THEN "get" ELSE "end"
    /\ UNCHANGED <<bark_url, alert, result, alertCalls>>

StageGet ==
    /\ apc = "get"
    /\ \E o \in Outcomes :
         /\ attempts' = Append(attempts, [stage |-> "GET", outcome |-> o])
         /\ apc' = IF AfterGet(o) = "simple" THEN "simple" ELSE "end"
    /\ UNCHANGED <<bark_url, alert, result, alertCalls>>

\* stage 3, the GET of the bare URL: whatever it ends in, the function ends
StageSimple ==
    /\ apc = "simple"
    /\ \E o \in Outcomes :
         attempts' = Append(attempts, [stage |-> "SIMPLE", outcome |-> o])
    /\ apc' = "end"
    /\ UNCHANGED <<bark_url, alert, result, alertCalls>>

\* every path ends in a bare "return" or in the end of the function
SendAlertReturn ==
    /\ apc = "end"
    /\ result' = NoneValue
    /\ apc' = "returned"
    /\ UNCHANGED <<bark_url, alert, attempts, alertCalls>>

\* the caller goes on; the manager is ready for the next call
SendAlertDone ==
    /\ apc = "returned"
    /\ apc' = "idle"
    /\ UNCHANGED <<bark_url, alert, attempts, result, alertCalls>>

InitAlert ==
    /\ apc = "new"
    /\ bark_url = FALSE
    /\ alert = [is_high_risk |-> FALSE, data |-> FALSE]
    /\ attempts = <<>>
    /\ result = "pending"
    /\ alertCalls = 0

NextAlert ==
    \/ NewAlertManager
    \/ SendAlertCall
    \/ StagePost
    \/ StageGet
    \/ StageSimple
    \/ SendAlertReturn
    \/ SendAlertDone

-----------------------------------------------------------------------------
(* ContractState and YEIMonitor.check_contract_state *)

\* what get_implementation_address returns (config.PROXY_ADDRESS) from one
\* call to the next
ProxyAddressReads == {"0xA", "0xB"}

get_implementation_address(configured) == configured

update_implementation_always(st, new, t) ==
    [state |-> [st EXCEPT !.current_implementation = new,
                          !.last_upgrade_time = t],
     changed |-> TRUE]

\* ContractState.update_implementation: the state it leaves and the value
\* it returns; t is the time at the call
update_implementation(st, new, t) ==
    IF st.current_implementation # new
    THEN [state |-> [st EXCEPT !.current_implementation = new,
                               !.last_upgrade_time = t],
          changed |-> TRUE]
    ELSE [state |-> st, changed |-> FALSE]

\* no confirmation alert was sent yet
NoConfirmation == [previous |-> "-", new |-> "-"]

\* the confirmation alert's text, built when send_alert is called: the
\* "previous address" line reads self.state.current_implementation, st
\* being self.state at that moment, and the "new address" line the address read
ConfirmationAlert(st, new) ==
    [previous |-> st.current_implementation, new |-> new]

AlertsOnChange_nofirst(changed, is_first_run) == changed

\* if self.state.update_implementation(...) and not self.state.is_first_run
AlertsOnChange(changed, is_first_run) == changed /\ ~is_first_run

\* what can raise in one cycle of the poll loop, and in one state check
PollRaiseSites == DOMAIN CatchClauses

CheckRaiseSites == {"delivery"}

\* the task after a loop body in which site raised ("none": nothing did)
TaskAfter(site) ==
    IF site # "none" /\ CatchClauses[site] = "escapes"
    THEN "terminated" ELSE "running"

\* asyncio.gather: the awaiting coroutine goes on when every task is done
GatherResult(done1, done2) ==
    IF done1 /\ done2 THEN "returned" ELSE "gather"

\* check_contract_state, whole: the read, the update, the confirmation
\* alert (whose delivery may fail), and the two assignments that end it
CheckContractState ==
    /\ checkTask = "running"
    /\ checkPc = "check"
    /\ \E a \in ProxyAddressReads : \E site \in CheckRaiseSites \cup {"none"} :
         LET new   == get_implementation_address(a)
             u     == update_implementation(state, new, now)
             sends == AlertsOnChange(u.changed, u.state.is_first_run)
         IN  /\ site # "none" => sends
             /\ lastRead' = new
             /\ lastChanged' = u.changed
             /\ confirmation' = IF sends THEN ConfirmationAlert(u.state, new)
                                ELSE confirmation
             /\ runAlerts' = IF sends THEN Append(runAlerts, "address_changed")
                             ELSE runAlerts
             /\ state' = [u.state EXCEPT !.is_first_run = FALSE,
                                         !.last_check_time = now]
             /\ lastRaised' = IF site = "none" THEN lastRaised ELSE site
             /\ checkTask' = TaskAfter(site)
    /\ checks' = checks + 1
    /\ checkPc' = "sleep"
    /\ runPc' = GatherResult(pollTask = "terminated", checkTask' = "terminated")
    /\ UNCHANGED <<mainPc, pollTask, heartbeatTask, heartbeatPc, now, initialized, hour, sent>>
    /\ UNCHANGED pollVars

StateAfterFailedCheck_flip(st) == [st EXCEPT !.is_first_run = FALSE]

\* what the except clause of check_contract_state leaves of self.state when
\* the address read raised: the assignments of the try block were not
\* reached
StateAfterFailedCheck(st) == st

\* check_contract_state when get_implementation_address raises: the except
\* clause sends the check-failure alert, and periodic_check goes to its
\* sleep
CheckContractStateRaises ==
    /\ checkTask = "running"
    /\ checkPc = "check"
    /\ state' = StateAfterFailedCheck(state)
    /\ runAlerts' = Append(runAlerts, "check_failed")
    /\ lastRaised' = "address_read"
    /\ checkPc' = "sleep"
    /\ UNCHANGED <<mainPc, runPc, pollTask, checkTask, heartbeatTask, heartbeatPc, now,
                   lastRead, lastChanged, confirmation, checks, initialized, hour, sent>>
    /\ UNCHANGED pollVars

\* periodic_check: await asyncio.sleep(self.config.CHECK_INTERVAL)
PeriodicSleep ==
    /\ checkTask = "running"
    /\ checkPc = "sleep"
    /\ now < MaxTime
    /\ now' = now + 1
    /\ checkPc' = "check"
    /\ UNCHANGED <<mainPc, runPc, pollTask, checkTask, heartbeatTask, heartbeatPc, state,
                   runAlerts, lastRaised, lastRead, lastChanged, confirmation, checks, initialized, hour,
                   sent>>
    /\ UNCHANGED pollVars

\* one cycle of the poll loop, by the place where it raised, if any
PollLoopIteration ==
    /\ pollTask = "running"
    /\ \E site \in PollRaiseSites \cup {"none"} :
         /\ lastRaised' = site
         /\ pollTask' = TaskAfter(site)
    /\ runPc' = GatherResult(pollTask' = "terminated", checkTask = "terminated")
    /\ UNCHANGED <<mainPc, checkTask, checkPc, heartbeatTask, heartbeatPc, state, now,
                   runAlerts, lastRead, lastChanged, confirmation, checks, initialized, hour, sent>>
    /\ UNCHANGED pollVars

-----------------------------------------------------------------------------
(* async_main, YEIMonitor.run and YEIMonitor.initialize *)

\* async_main: the two tasks are created and awaited together
MainStart ==
    /\ mainPc = "start"
    /\ mainPc' = "gather"
    /\ runPc' = "test_rpc"
    /\ heartbeatTask' = "running"
    /\ UNCHANGED <<heartbeatPc, pollTask, checkTask, checkPc, state, now, runAlerts,
                   lastRaised, lastRead, lastChanged, confirmation, checks, initialized, hour, sent>>
    /\ UNCHANGED pollVars

\* initialize: test_rpc_connection; when it fails the failure alert is sent
\* and initialize returns False
InitTestRpc ==
    /\ runPc = "test_rpc"
    /\ \E ok \in BOOLEAN :
         IF ok
         THEN /\ runPc' = "read_state"
              /\ UNCHANGED <<heartbeatPc, runAlerts, initialized>>
         ELSE /\ runAlerts' = Append(runAlerts, "init_failed")
              /\ initialized' = "failed"
              /\ runPc' = "initialized"
    /\ UNCHANGED <<mainPc, pollTask, checkTask, checkPc, heartbeatTask, heartbeatPc, state,
                   now, lastRaised, lastRead, lastChanged, confirmation, checks, hour, sent>>
    /\ UNCHANGED pollVars

\* initialize: the implementation address, then the head as the cursor;
\* when the head read raises the failure alert is sent
InitReadState ==
    /\ runPc = "read_state"
    /\ \E a \in ProxyAddressReads : \E ok \in BOOLEAN :
         /\ state' = [state EXCEPT
                        !.current_implementation = get_implementation_address(a)]
         /\ IF ok
            THEN /\ last_checked_block' = head
                 /\ initialized' = "ok"
                 /\ UNCHANGED runAlerts
            ELSE /\ runAlerts' = Append(runAlerts, "init_failed")
                 /\ initialized' = "failed"
                 /\ UNCHANGED last_checked_block
    /\ runPc' = "initialized"
    /\ UNCHANGED <<mainPc, pollTask, checkTask, checkPc, heartbeatTask, heartbeatPc, now,
                   lastRaised, lastRead, lastChanged, confirmation, checks, hour, sent>>
    /\ UNCHANGED pollRest

RunStartsLoops_always(ok) == TRUE

\* run: if not await self.initialize(): return
RunStartsLoops(ok) == ok

\* run, after initialize: it returns, or starts the two loops and awaits them
RunAfterInitialize ==
    /\ runPc = "initialized"
    /\ IF RunStartsLoops(initialized = "ok")
       THEN /\ pollTask' = "running"
            /\ checkTask' = "running"
            /\ runPc' = "gather"
            /\ UNCHANGED mainPc
       ELSE /\ runPc' = "returned"
            /\ mainPc' = GatherResult(TRUE, heartbeatTask = "terminated")
            /\ UNCHANGED <<pollTask, checkTask>>
    /\ UNCHANGED <<checkPc, heartbeatTask, heartbeatPc, state, now, runAlerts, lastRaised,
                   lastRead, lastChanged, confirmation, checks, initialized, hour, sent>>
    /\ UNCHANGED pollVars

-----------------------------------------------------------------------------
(* HeartbeatMonitor.start *)

\* the hours the clock shows in turn: night, morning, noon, evening
NextHour(h) == IF h = 3 THEN 8 ELSE IF h = 8 THEN 12 ELSE IF h = 12 THEN 20 ELSE 3

ClockHour ==
    /\ hour' = NextHour(hour)
    /\ UNCHANGED <<mainPc, runPc, pollTask, checkTask, checkPc, heartbeatTask, heartbeatPc,
                   state, now, runAlerts, lastRaised, lastRead, lastChanged, confirmation, checks,
                   initialized, sent>>
    /\ UNCHANGED pollVars

CheckHeartbeat_forget(h, f) ==
    IF 8 <= h /\ h < 9 /\ ~f.morning
    THEN [morning |-> TRUE, noon |-> FALSE, evening |-> FALSE]
    ELSE IF 12 <= h /\ h < 13 /\ ~f.noon THEN f
    ELSE IF 20 <= h /\ h < 21 /\ ~f.evening THEN [f EXCEPT !.evening = TRUE]
    ELSE IF h < 8 THEN [morning |-> FALSE, noon |-> FALSE, evening |-> FALSE]
    ELSE f

\* _check_heartbeat: the flags after one check at hour h
CheckHeartbeat(h, f) ==
    IF 8 <= h /\ h < 9 /\ ~f.morning
    THEN [morning |-> TRUE, noon |-> FALSE, evening |-> FALSE]
    ELSE IF 12 <= h /\ h < 13 /\ ~f.noon THEN [f EXCEPT !.noon = TRUE]
    ELSE IF 20 <= h /\ h < 21 /\ ~f.evening THEN [f EXCEPT !.evening = TRUE]
    ELSE IF h < 8 THEN [morning |-> FALSE, noon |-> FALSE, evening |-> FALSE]
    ELSE f

\* start: while True: _check_heartbeat; an exception is caught in the loop,
\* which goes to its sleep
HeartbeatCheck ==
    /\ heartbeatTask = "running"
    /\ heartbeatPc = "check"
    /\ sent' = CheckHeartbeat(hour, sent)
    /\ heartbeatPc' = "sleep"
    /\ UNCHANGED <<mainPc, runPc, pollTask, checkTask, checkPc, heartbeatTask,
                   state, now, runAlerts, lastRaised, lastRead, lastChanged, confirmation,
                   checks, initialized, hour>>
    /\ UNCHANGED pollVars

\* start: await asyncio.sleep(600), or 300 after an exception
HeartbeatSleep ==
    /\ heartbeatTask = "running"
    /\ heartbeatPc = "sleep"
    /\ heartbeatPc' = "check"
    /\ UNCHANGED <<mainPc, runPc, pollTask, checkTask, checkPc, heartbeatTask,
                   state, now, runAlerts, lastRaised, lastRead, lastChanged, confirmation,
                   checks, initialized, hour, sent>>
    /\ UNCHANGED pollVars

\* _check_heartbeat: the heartbeat it sends at hour h with the flags f
SentPeriod(h, f) ==
    IF 8 <= h /\ h < 9 /\ ~f.morning THEN "morning"
    ELSE IF 12 <= h /\ h < 13 /\ ~f.noon THEN "noon"
    ELSE IF 20 <= h /\ h < 21 /\ ~f.evening THEN "evening"
    ELSE "none"

Periods == {"morning", "noon", "evening"}

\* the hours at which the clock is read: before 8, in and between the three
\* sending hours, and after the last
ClockHours == {0, 7, 8, 9, 12, 13, 20, 21, 23}

\* time passes: a later hour of the day, or an hour of the next day
WallClockAdvances ==
    /\ \E h \in ClockHours :
         \/ /\ h > wallClock.hour
            /\ wallClock' = [wallClock EXCEPT !.hour = h]
         \/ /\ wallClock.day < MaxDays
            /\ wallClock' = [day |-> wallClock.day + 1, hour |-> h]
    /\ UNCHANGED <<sentFlags, heartbeats>>

\* _check_heartbeat is called, by start() every ten minutes or at any
\* other pace
CheckHeartbeatCall ==
    /\ LET p == SentPeriod(wallClock.hour, sentFlags)
       IN  /\ p # "none" => heartbeats[wallClock.day][p] < 2
           /\ heartbeats' =
                 IF p = "none" THEN heartbeats
                 ELSE [heartbeats EXCEPT ![wallClock.day][p] = @ + 1]
    /\ sentFlags' = CheckHeartbeat(wallClock.hour, sentFlags)
    /\ UNCHANGED wallClock

\* HeartbeatMonitor.__init__, at midnight of the first day
InitHeartbeat ==
    /\ wallClock = [day |-> 1, hour |-> 0]
    /\ sentFlags = [morning |-> FALSE, noon |-> FALSE, evening |-> FALSE]
    /\ heartbeats = [d \in 1..MaxDays |-> [p \in Periods |-> 0]]

NextHeartbeat ==
    \/ WallClockAdvances
    \/ CheckHeartbeatCall

\* the state __init__ leaves: a fresh ContractState, no task yet
InitRun ==
    /\ mainPc = "start"
    /\ runPc = "new"
    /\ pollTask = "not_started"
    /\ checkTask = "not_started"
    /\ checkPc = "check"
    /\ heartbeatTask = "not_started"
    /\ heartbeatPc = "check"
    /\ state = [current_implementation |-> "None", last_upgrade_time |-> 0,
                is_first_run |-> TRUE, last_check_time |-> 0]
    /\ now = 1
    /\ runAlerts = <<>>
    /\ lastRaised = "none"
    /\ lastRead = "None"
    /\ lastChanged = FALSE
    /\ confirmation = NoConfirmation
    /\ checks = 0
    /\ initialized = "pending"
    /\ hour = 3
    /\ sent = [morning |-> FALSE, noon |-> FALSE, evening |-> FALSE]

\* the poller's variables as __init__ leaves them: the cursor is 0
InitPollNew ==
    /\ head \in InitHeads
    /\ chainLogs = {}
    /\ h0 = 0
    /\ last_checked_block = 0
    /\ pc = "idle"
    /\ current_block = 0
    /\ from_block = 0
    /\ to_block = 0
    /\ kindIdx = 1
    /\ all_events = <<>>
    /\ evIdx = 1
    /\ queriedTo = {}
    /\ failed = {}
    /\ fetchedKinds = {}
    /\ handled = <<>>
    /\ prevCursor = 0
    /\ advanced = FALSE
    /\ failures = 0
    /\ growths = 0

NextRun ==
    \/ MainStart
    \/ InitTestRpc
    \/ InitReadState
    \/ RunAfterInitialize
    \/ PollLoopIteration
    \/ CheckContractState
    \/ CheckContractStateRaises
    \/ PeriodicSleep
    \/ ClockHour
    \/ HeartbeatCheck
    \/ HeartbeatSleep

-----------------------------------------------------------------------------
(* Decoding: one log through get_all_events' loop over the six kinds *)

\* topics[0] of a log: one of the six signatures or another one
LogSignatures == event_signatures \cup {"Other"}

\* a log arrives; a log without topics has no signature and does not decode
DecodeInput ==
    /\ dpc = "input"
    /\ hexPrefixed' \in BOOLEAN
    /\ \E sig \in LogSignatures, n \in 0..MaxTopics, ok \in BOOLEAN :
         /\ n = 0 => (sig = "Other" /\ ~ok)
         /\ rawLog' = [blockNumber |-> 1, kind |-> sig, abi |-> ok, ntopics |-> n]
    /\ dIdx' = 1
    /\ decoded' = <<>>
    /\ dpc' = "scan"

\* the log under the next kind of key_events
DecodeKind ==
    /\ dpc = "scan"
    /\ decoded' = decoded \o DecodeUnder(key_events[dIdx], rawLog)
    /\ dIdx' = dIdx + 1
    /\ dpc' = IF dIdx' > Len(key_events) THEN "done" ELSE "scan"
    /\ UNCHANGED <<hexPrefixed, rawLog>>

\* the events are handed to the handler, one after the other
DecodeDone ==
    /\ dpc = "done"
    /\ dpc' = "input"
    /\ UNCHANGED <<hexPrefixed, rawLog, dIdx, decoded>>

InitDecode ==
    /\ hexPrefixed = TRUE
    /\ rawLog = [blockNumber |-> 1, kind |-> "Other", abi |-> FALSE, ntopics |-> 0]
    /\ dpc = "input"
    /\ dIdx = 1
    /\ decoded = <<>>

NextDecode ==
    \/ DecodeInput
    \/ DecodeKind
    \/ DecodeDone

-----------------------------------------------------------------------------
(* utils/amount_utils.py: format_amount and format_large_number, on raw    *)
(* amounts that are whole multiples of 10^decimals.  A Decimal quantized   *)
(* to 0.01 is written as its number of hundredths                          *)

DEFAULT_DECIMALS == 18

\* the whole token amounts formatted: around every unit boundary, and some
\* that are no multiple of a hundredth of their unit
WholeAmounts ==
    {0, 1, 999, 1000, 1001, 1005, 1010, 1015, 1500, 999995, 1000000, 1234567,
     25000000, 1000000000, 1234567890}

\* a raw amount: whole * 10^decimals, as Decimal(str(amount)) reads it
RawAmount(whole, decimals) == [whole |-> whole, zeros |-> decimals]

\* raw_amount / (Decimal(10) ** decimals), exact at precision 36 for the
\* amounts of the model
ApplyDecimals(raw, decimals) ==
    IF raw.zeros = decimals THEN raw.whole
    ELSE IF raw.zeros > decimals THEN raw.whole * Pow10(raw.zeros - decimals)
    ELSE raw.whole \div Pow10(decimals - raw.zeros)

\* (number / unit).quantize(Decimal('0.01')), in hundredths: the context
\* rounds half to even; step is unit / 100
QuantizeHundredths(number, step) ==
    LET q == number \div step
        r == number % step
    IN  IF 2 * r > step \/ (2 * r = step /\ q % 2 = 1) THEN q + 1 ELSE q

format_large_number_whole(number) ==
    IF number >= 1000000000
    THEN [hundredths |-> 100 * (number \div 1000000000), suffix |-> "B"]
    ELSE IF number >= 1000000
    THEN [hundredths |-> 100 * (number \div 1000000), suffix |-> "M"]
    ELSE IF number >= 1000
    THEN [hundredths |-> 100 * (number \div 1000), suffix |-> "K"]
    ELSE [hundredths |-> 100 * number, suffix |-> ""]

\* format_large_number on a whole number that is not negative
format_large_number(number) ==
    IF number >= 1000000000
    THEN [hundredths |-> QuantizeHundredths(number, 10000000), suffix |-> "B"]
    ELSE IF number >= 1000000
    THEN [hundredths |-> QuantizeHundredths(number, 10000), suffix |-> "M"]
    ELSE IF number >= 1000
    THEN [hundredths |-> QuantizeHundredths(number, 10), suffix |-> "K"]
    ELSE [hundredths |-> 100 * number, suffix |-> ""]

\* format_amount: the decimals and the symbol of the asset, or 18 and no
\* symbol for an asset the table does not hold
format_amount(raw, asset) ==
    LET known    == asset \in DOMAIN TOKEN_DECIMALS
        decimals == IF known THEN TOKEN_DECIMALS[asset].decimals
                    ELSE DEFAULT_DECIMALS
        text     == format_large_number(ApplyDecimals(raw, decimals))
    IN  [hundredths |-> text.hundredths, suffix |-> text.suffix,
         symbol |-> IF known THEN TOKEN_DECIMALS[asset].symbol ELSE ""]

\* the decimals format_amount applies for the asset
DecimalsOf(asset) ==
    IF asset \in DOMAIN TOKEN_DECIMALS THEN TOKEN_DECIMALS[asset].decimals
    ELSE DEFAULT_DECIMALS

\* the value of a unit suffix
UnitOf(suffix) ==
    IF suffix = "B" THEN 1000000000
    ELSE IF suffix = "M" THEN 1000000
    ELSE IF suffix = "K" THEN 1000
    ELSE 1

\* the numeric portion of a formatted amount read back as a number with
\* the unit suffix applied, as the fraction num / den
Reparse(text) ==
    IF text.suffix = "" THEN [num |-> text.hundredths, den |-> 100]
    ELSE [num |-> text.hundredths * (UnitOf(text.suffix) \div 100), den |-> 1]

-----------------------------------------------------------------------------
(* check_liquidity: event_impact_percentage, as an exact fraction *)

DivisionFault == [fault |-> TRUE]

\* a / b of two ints: ZeroDivisionError when b is 0
TrueDiv(a, b) == IF b = 0 THEN DivisionFault ELSE [num |-> a, den |-> b]

Times100(x) == IF x = DivisionFault THEN DivisionFault
               ELSE [num |-> 100 * x.num, den |-> x.den]

\* the raw amounts and total supplies the percentage is computed on
ImpactAmounts == {0, 1, 5, 50, 999, 1000}

ImpactSupplies == {0, 1, 50, 1000}

event_impact_percentage_unguarded(event_amount, atoken_total_supply) ==
    IF event_amount > 0
    THEN Times100(TrueDiv(event_amount, atoken_total_supply))
    ELSE [num |-> 0, den |-> 1]

\* event_impact_percentage = 0; if atoken_total_supply > 0 and
\* event_amount > 0: event_impact_percentage = (amount / supply) * 100
event_impact_percentage(event_amount, atoken_total_supply) ==
    IF atoken_total_supply > 0 /\ event_amount > 0
    THEN Times100(TrueDiv(event_amount, atoken_total_supply))
    ELSE [num |-> 0, den |-> 1]

-----------------------------------------------------------------------------
(* The two functions applied to every input of the model *)

NoResult == [none |-> TRUE]

\* format_amount is called on a raw amount and an asset
CallFormatAmount ==
    /\ cpc \in {"ready", "reparsed", "impact", "fields"}
    /\ \E whole \in WholeAmounts : \E asset \in Assets :
         /\ cin' = [fn |-> "format_amount", whole |-> whole, asset |-> asset,
                    a |-> 0, b |-> 0]
         /\ cout' = format_amount(RawAmount(whole, DecimalsOf(asset)), asset)
    /\ cpc' = "formatted"

\* the numeric portion of the result is read back
ReparseFormatted ==
    /\ cpc = "formatted"
    /\ cout' = [text |-> cout, value |-> Reparse(cout)]
    /\ cpc' = "reparsed"
    /\ UNCHANGED cin

\* check_liquidity computes the impact of an event on an asset
ComputeImpact ==
    /\ cpc \in {"ready", "reparsed", "impact", "fields"}
    /\ \E amount \in ImpactAmounts : \E supply \in ImpactSupplies :
         /\ cin' = [fn |-> "event_impact_percentage", whole |-> 0,
                    asset |-> NoAsset, a |-> amount, b |-> supply]
         /\ cout' = event_impact_percentage(amount, supply)
    /\ cpc' = "impact"

\* the fields of event.args the handler asks for, and in the model the
\* value each holds when it is present
ArgFields ==
    [reserve |-> "usdc", asset |-> "wbtc", collateralAsset |-> "unlisted",
     debtAsset |-> "wbtc", amount |-> Amt(49000, 0),
     debtToCover |-> Amt(50000, 0), value |-> Amt(60000, 0)]

\* an event whose args holds the fields of F, and the two events of
\* basic_decode_log
FieldEvents ==
    {[event |-> "LiquidationCall", shape |-> "abi",
      args |-> [f \in F |-> ArgFields[f]]] : F \in SUBSET DOMAIN ArgFields}
    \cup {BasicEvent("LiquidationCall", shape) :
              shape \in {"basic_empty", "basic_address"}}

\* the handler reads the asset addresses and the amount of an event, in
\* check_liquidity and for the notification
ReadEventFields ==
    /\ cpc \in {"ready", "reparsed", "impact", "fields"}
    /\ \E e \in FieldEvents :
         /\ cin' = [fn |-> "event_fields", ev |-> e]
         /\ cout' = [addresses |-> GetAssetAddresses(e),
                     check_amount |-> EventAmount(e),
                     notify_amount |-> NotificationAmount(e)]
    /\ cpc' = "fields"

InitCalc ==
    /\ cpc = "ready"
    /\ cin = [fn |-> "none", whole |-> 0, asset |-> NoAsset, a |-> 0, b |-> 0]
    /\ cout = NoResult

NextCalc ==
    \/ CallFormatAmount
    \/ ReparseFormatted
    \/ ComputeImpact
    \/ ReadEventFields

-----------------------------------------------------------------------------
(* The event loop: monitor_implementation_events, periodic_check and       *)
(* HeartbeatMonitor.start as tasks of one thread, one await at a time      *)

Tasks == {"poll", "check", "heartbeat"}

\* the requests made through the requests library: the call returns when
\* the answer is there, and the event loop's thread is inside it until then
BlockingStages == {"get", "simple", "hb_post"}

\* a task waiting for the outcome of a delivery attempt
AttemptStages == {"post", "get", "simple", "hb_post"}

\* the event loop can run task t: no other task is inside a call
Runnable(t) == holder \in {"none", t}

\* send_alert after the outcome o of the request of a stage: the next
\* request, or "done" when it returns
NextStage(stage, o) ==
    IF stage = "post" THEN (IF PostRaises(o) THEN "get" ELSE "done")
    ELSE IF stage = "get" THEN (IF AfterGet(o) = "simple" THEN "simple" ELSE "done")
    ELSE "done"

HandlingOrder_reversed(k, n) == n + 1 - k

\* for event in events: the k-th event handled, of n, is the k-th of the list
HandlingOrder(k, n) == k

StateAfterCycle_stamp(st, t) == [st EXCEPT !.last_check_time = t]

\* what a cycle of the poll loop leaves of self.state: the loop assigns to
\* last_checked_block only
StateAfterCycle(st, t) == st

\* the variables the tasks leave alone
tasksRest == <<chainLogs, pc, current_block, from_block, to_block, kindIdx,
               all_events, queriedTo, fetchedKinds, failed, handled,
               prevCursor, advanced, failures, h0, evIdx,
               mainPc, runPc, pollTask, checkTask, checkPc, heartbeatTask,
               heartbeatPc, now, runAlerts, lastRaised, lastRead,
               lastChanged, confirmation, checks, initialized, hour, sent,
               eventVars, alertVars, decodeVars, calcVars, hbVars>>

\* the chain grows whatever the tasks do
TaskChainGrow ==
    /\ growths < MaxGrowths
    /\ growths' = growths + 1
    /\ head' = head + 1
    /\ UNCHANGED <<last_checked_block, state, taskVars, tasksRest>>

PollerAfterRaise_exit(site) == "terminated"

\* the poller after site raised in a cycle: the cycle's except clause takes
\* it to await asyncio.sleep(30), and the loop goes on
PollerAfterRaise(site) ==
    IF CatchClauses[site] = "monitor.py:79" THEN "backoff" ELSE "terminated"

\* the poller reads the head; with new blocks get_all_events returns the
\* cycle's events, otherwise the cycle goes to its sleep; when the read
\* raises the cycle goes to its backoff
TaskPollRead ==
    /\ tpc["poll"] = "head"
    /\ Runnable("poll")
    /\ \/ \E cur \in HeadReads :
            IF HasNewBlocks(cur, last_checked_block)
            THEN \E n \in 0..MaxCycleEvents :
                   /\ cycle' = [cur |-> cur, n |-> n, k |-> 0, c |-> 0]
                   /\ tpc' = [tpc EXCEPT !["poll"] = "events"]
            ELSE /\ cycle' = [cur |-> cur, n |-> 0, k |-> 0, c |-> 0]
                 /\ tpc' = [tpc EXCEPT !["poll"] = "sleep"]
       \/ /\ tpc' = [tpc EXCEPT !["poll"] = PollerAfterRaise("block_number")]
          /\ UNCHANGED cycle
    /\ attemptLog' = <<>>
    /\ UNCHANGED <<head, growths, last_checked_block, state, holder, tasksRest>>

\* the loop over the events: the handler is awaited on the next event; it
\* awaits one send_alert call after the other and returns; after the last
\* event the cursor is set
TaskPollEvent ==
    /\ tpc["poll"] = "events"
    /\ Runnable("poll")
    /\ IF cycle.k < cycle.n
       THEN /\ \/ /\ cycle.c < MaxAlertCalls
                  /\ tpc' = [tpc EXCEPT !["poll"] = "post"]
                  /\ attemptLog' = Append(attemptLog,
                        [ev |-> HandlingOrder(cycle.k + 1, cycle.n),
                         stage |-> "post", phase |-> "begin"])
                  /\ UNCHANGED cycle
               \/ /\ cycle' = [cycle EXCEPT !.k = cycle.k + 1]
                  /\ UNCHANGED <<tpc, attemptLog>>
            /\ UNCHANGED <<last_checked_block, state>>
       ELSE /\ last_checked_block' = NewCursor(cycle.cur, cycle.cur)
            /\ state' = StateAfterCycle(state, now)
            /\ tpc' = [tpc EXCEPT !["poll"] = "sleep"]
            /\ UNCHANGED <<cycle, attemptLog>>
    /\ UNCHANGED <<head, growths, holder, tasksRest>>

\* the outcome of a request of send_alert reaches the task that awaits it:
\* the cascade makes its next request, or send_alert returns
TaskDelivery ==
    \E t \in {"poll", "check"} : \E o \in Outcomes :
        LET stage == tpc[t]
            next  == NextStage(stage, o)
            ev    == HandlingOrder(cycle.k + 1, cycle.n)
        IN  /\ stage \in {"post", "get", "simple"}
            /\ Runnable(t)
            /\ tpc' = [tpc EXCEPT ![t] =
                          IF next # "done" THEN next
                          ELSE IF t = "poll" THEN "events" ELSE "finish"]
            /\ holder' = IF next \in BlockingStages THEN t ELSE "none"
            /\ attemptLog' =
                  IF t # "poll" THEN attemptLog
                  ELSE attemptLog
                       \o <<[ev |-> ev, stage |-> stage, phase |-> "end"]>>
                       \o (IF next = "done" THEN <<>>
                           ELSE <<[ev |-> ev, stage |-> next,
                                   phase |-> "begin"]>>)
            /\ cycle' = IF t = "poll" /\ next = "done"
                        THEN [cycle EXCEPT !.c = cycle.c + 1] ELSE cycle
            /\ UNCHANGED <<head, growths, last_checked_block, state, tasksRest>>

\* check_contract_state up to its send_alert: the address is read and
\* update_implementation stores it when it differs
TaskCheck ==
    /\ tpc["check"] = "check"
    /\ Runnable("check")
    /\ \E a \in ProxyAddressReads :
         LET u == update_implementation(state, get_implementation_address(a),
                                        now)
         IN  /\ state' = u.state
             /\ tpc' = [tpc EXCEPT !["check"] =
                           IF AlertsOnChange(u.changed, u.state.is_first_run)
                           THEN "post" ELSE "finish"]
    /\ UNCHANGED <<head, growths, last_checked_block, holder, cycle,
                   attemptLog, tasksRest>>

\* check_contract_state after it: is_first_run and last_check_time
TaskCheckFinish ==
    /\ tpc["check"] = "finish"
    /\ Runnable("check")
    /\ state' = [state EXCEPT !.is_first_run = FALSE, !.last_check_time = now]
    /\ tpc' = [tpc EXCEPT !["check"] = "sleep"]
    /\ UNCHANGED <<head, growths, last_checked_block, holder, cycle,
                   attemptLog, tasksRest>>

\* _check_heartbeat: a heartbeat is due or not; _send_heartbeat posts it
\* with requests.post
TaskHeartbeat ==
    /\ tpc["heartbeat"] = "check"
    /\ Runnable("heartbeat")
    /\ \E due \in BOOLEAN :
         IF due
         THEN /\ tpc' = [tpc EXCEPT !["heartbeat"] = "hb_post"]
              /\ holder' = "heartbeat"
         ELSE /\ tpc' = [tpc EXCEPT !["heartbeat"] = "sleep"]
              /\ UNCHANGED holder
    /\ UNCHANGED <<head, growths, last_checked_block, state, cycle,
                   attemptLog, tasksRest>>

\* requests.post returns or raises
TaskHeartbeatPosted ==
    /\ tpc["heartbeat"] = "hb_post"
    /\ Runnable("heartbeat")
    /\ tpc' = [tpc EXCEPT !["heartbeat"] = "sleep"]
    /\ holder' = "none"
    /\ UNCHANGED <<head, growths, last_checked_block, state, cycle,
                   attemptLog, tasksRest>>

\* await asyncio.sleep(...) of a task is over
TaskWakes ==
    /\ \E t \in Tasks :
         /\ tpc[t] \in {"sleep", "backoff"}
         /\ Runnable(t)
         /\ tpc' = [tpc EXCEPT ![t] = IF t = "poll" THEN "head" ELSE "check"]
    /\ UNCHANGED <<head, growths, last_checked_block, state, holder, cycle,
                   attemptLog, tasksRest>>

InitTasks ==
    /\ tpc = [t \in Tasks |-> IF t = "poll" THEN "head" ELSE "check"]
    /\ holder = "none"
    /\ cycle = [cur |-> 0, n |-> 0, k |-> 0, c |-> 0]
    /\ attemptLog = <<>>

\* the state in which run() has started the two loops
InitLoopsRunning ==
    /\ mainPc = "gather"
    /\ runPc = "gather"
    /\ pollTask = "running"
    /\ checkTask = "running"
    /\ checkPc = "check"
    /\ heartbeatTask = "running"
    /\ heartbeatPc = "check"
    /\ state = [current_implementation |-> "0xA", last_upgrade_time |-> 0,
                is_first_run |-> TRUE, last_check_time |-> 0]
    /\ now = 1
    /\ runAlerts = <<>>
    /\ lastRaised = "none"
    /\ lastRead = "None"
    /\ lastChanged = FALSE
    /\ confirmation = NoConfirmation
    /\ checks = 0
    /\ initialized = "ok"
    /\ hour = 3
    /\ sent = [morning |-> FALSE, noon |-> FALSE, evening |-> FALSE]

NextTasks ==
    \/ TaskChainGrow
    \/ TaskPollRead
    \/ TaskPollEvent
    \/ TaskDelivery
    \/ TaskCheck
    \/ TaskCheckFinish
    \/ TaskHeartbeat
    \/ TaskHeartbeatPosted
    \/ TaskWakes

-----------------------------------------------------------------------------
vars == <<pollVars, eventVars, alertVars, runVars, decodeVars, calcVars,
          taskVars, hbVars>>

Init ==
    InitPoll /\ InitEvent /\ InitAlert /\ InitRun /\ InitDecode /\ InitCalc
    /\ InitTasks /\ InitHeartbeat

\* the poll loop, the handler being a step of it
Next ==
    NextPoll /\ UNCHANGED <<eventVars, alertVars, runVars, decodeVars, calcVars, taskVars, hbVars>>

Spec == Init /\ [][Next]_vars

InitUsedChain ==
    InitPollUsedChain /\ InitEvent /\ InitAlert /\ InitRun /\ InitDecode
    /\ InitCalc /\ InitTasks /\ InitHeartbeat

\* the poll loop started on a chain that already holds a log of the contract
SpecUsedChain == InitUsedChain /\ [][Next]_vars

\* the handler on every event it can be given
SpecEvent ==
    Init /\ [][NextEvent
               /\ UNCHANGED <<pollVars, alertVars, runVars, decodeVars,
                            calcVars, taskVars, hbVars>>]_vars

\* the dispatcher on every outcome of its requests
SpecAlert ==
    Init /\ [][NextAlert
               /\ UNCHANGED <<pollVars, eventVars, runVars, decodeVars,
                            calcVars, taskVars, hbVars>>]_vars

\* the decoding of every log under the six kinds
SpecDecode ==
    Init /\ [][NextDecode
               /\ UNCHANGED <<pollVars, eventVars, alertVars, runVars,
                            calcVars, taskVars, hbVars>>]_vars

\* the two pure functions on every input of the model
SpecCalc ==
    Init /\ [][NextCalc
               /\ UNCHANGED <<pollVars, eventVars, alertVars, runVars,
                            decodeVars, taskVars, hbVars>>]_vars

\* _check_heartbeat at every hour of the days of the model
SpecHeartbeat ==
    Init /\ [][NextHeartbeat
               /\ UNCHANGED <<pollVars, eventVars, alertVars, runVars,
                            decodeVars, calcVars, taskVars>>]_vars

\* the state when the three tasks are running
InitRunning ==
    InitPoll /\ InitEvent /\ InitAlert /\ InitLoopsRunning /\ InitDecode
    /\ InitCalc /\ InitTasks /\ InitHeartbeat

\* the three tasks in every interleaving the event loop allows
SpecTasks == InitRunning /\ [][NextTasks]_vars

\* a step of task t: one of its own actions, or its part of an action
\* shared by the tasks
StepOfTask(t) ==
    \/ t = "poll" /\ (TaskPollRead \/ TaskPollEvent)
    \/ t = "check" /\ (TaskCheck \/ TaskCheckFinish)
    \/ t = "heartbeat" /\ (TaskHeartbeat \/ TaskHeartbeatPosted)
    \/ (TaskDelivery \/ TaskWakes) /\ tpc'[t] # tpc[t]

\* the event loop runs its ready callbacks first in, first out: a task that
\* is ready again and again gets its step; every request returns within
\* its timeout and every sleep ends
SpecTasksFair ==
    /\ SpecTasks
    /\ \A t \in Tasks : SF_vars(StepOfTask(t))

restOfRun == <<eventVars, alertVars, decodeVars, calcVars, taskVars, hbVars>>

\* the process from async_main on: initialize, the loops as tasks, the
\* heartbeat; the event loop runs every task that can take a step
\* the state when async_main starts
InitNew ==
    InitPollNew /\ InitEvent /\ InitAlert /\ InitRun /\ InitDecode /\ InitCalc
    /\ InitTasks /\ InitHeartbeat

SpecRun ==
    /\ InitNew
    /\ [][NextRun /\ UNCHANGED restOfRun]_vars
    /\ WF_vars(MainStart /\ UNCHANGED restOfRun)
    /\ WF_vars(InitTestRpc /\ UNCHANGED restOfRun)
    /\ WF_vars(InitReadState /\ UNCHANGED restOfRun)
    /\ WF_vars(RunAfterInitialize /\ UNCHANGED restOfRun)
    /\ WF_vars(PollLoopIteration /\ UNCHANGED restOfRun)
    /\ WF_vars(CheckContractState /\ UNCHANGED restOfRun)
    /\ WF_vars(PeriodicSleep /\ UNCHANGED restOfRun)
    /\ WF_vars(ClockHour /\ UNCHANGED restOfRun)
    /\ WF_vars(HeartbeatCheck /\ UNCHANGED restOfRun)
    /\ WF_vars(HeartbeatSleep /\ UNCHANGED restOfRun)

-----------------------------------------------------------------------------
(* The poll loop: claims C1 to C5 *)

\* the cycle that just ended moved the cursor
CycleAdvanced == pc = "sleep" /\ advanced

\* C1: whenever the cursor advances from a to b, the logs of a+1..b were
\* fetched without error for all six kinds (every query of the cycle reached
\* b), and a cycle in which a gateway call failed leaves the cursor unchanged.
C1_AdvanceOnlyAfterFullScan ==
    CycleAdvanced =>
        /\ failed = {}
        /\ fetchedKinds = KeyKinds
        /\ from_block = prevCursor + 1
        /\ \A t \in queriedTo : t >= last_checked_block

\* C2: after a cycle that found new blocks and completed, every fetch having
\* succeeded, the cursor is
\* min(head, old cursor + 1000), and that is exactly the upper bound of the
\* block range the cycle queried.
C2_CursorIsWindowEnd ==
    (CycleAdvanced /\ failed = {}) =>
        /\ last_checked_block = Min(current_block, prevCursor + BlockWindow)
        /\ \A t \in queriedTo : t = last_checked_block

\* C3: each log is handed to the event handler at most once over the whole
\* run (a block holds at most one log here, so the block number names it).
C3_NoDuplicateHandling ==
    \A i, j \in 1..Len(handled) :
        i # j => handled[i].blockNumber # handled[j].blockNumber

\* C4: no step of the poll loop, in a successful or a failing cycle, lowers
\* last_checked_block.
C4_CursorMonotone == [][last_checked_block' >= last_checked_block]_vars

\* a cycle read a head behind the cursor, after the cursor had advanced, and
\* left the cursor where it was
C4_Witness ==
    /\ pc = "sleep"
    /\ ~advanced
    /\ current_block < last_checked_block
    /\ last_checked_block > h0

\* C5: when get_all_events returns, every kind whose fetch did not fail was
\* fetched, and every log of such a kind inside the range all the queries
\* covered is among the returned events.
C5_FetchFailureIsolated ==
    (pc = "handle" /\ evIdx = 1) =>
        /\ fetchedKinds \cup failed = KeyKinds
        /\ \A l \in chainLogs :
              ( /\ l.kind \in KeyKinds \ failed
                /\ from_block <= l.blockNumber
                /\ \A t \in queriedTo : l.blockNumber <= t )
              => \E i \in 1..Len(all_events) :
                    /\ all_events[i].blockNumber = l.blockNumber
                    /\ all_events[i].event = l.kind

\* get_all_events returned an event of one kind although the fetch of a
\* kind earlier in key_events failed
C5_Witness ==
    /\ pc = "handle"
    /\ evIdx = 1
    /\ "Supply" \in failed
    /\ \E i \in 1..Len(all_events) : all_events[i].event = "FlashLoan"

-----------------------------------------------------------------------------
(* The handler's two gates and the notification: claims C6 to C10 *)

\* the impact of an evaluation reaches the configured threshold
ImpactReachesThreshold(ev) ==
    /\ AmtPos(ev.amount)
    /\ AmtPos(ev.supply)
    /\ AmtGE(AmtMul(ev.amount, 1000),
             AmtMul(ev.supply, config.LIQUIDITY_CHANGE_THRESHOLD))

\* C6: the utilization warning is never called for an asset without the
\* liquidity-change alert having been called for it first, and an
\* evaluation whose impact is below the threshold performs no utilization
\* check.
C6_UtilizationNeedsLiquidityGate ==
    /\ \A i \in 1..Len(evals) :
          evals[i].utilChecked => ImpactReachesThreshold(evals[i])
    /\ \A i \in 1..Len(calls) :
          calls[i].tag = "utilization" =>
             \E j \in 1..(i - 1) : /\ calls[j].tag = "liquidity"
                                   /\ calls[j].asset = calls[i].asset

\* an asset was evaluated with an impact below the threshold while its
\* utilization was at the warning level, and no utilization check was made
C6_Witness ==
    \E i \in 1..Len(evals) :
        /\ AmtPos(evals[i].amount)
        /\ ~ImpactReachesThreshold(evals[i])
        /\ evals[i].utilHigh
        /\ ~evals[i].utilChecked
        /\ \A j \in 1..Len(calls) : calls[j].tag # "utilization"

\* C7: for every evaluated asset of a structurally decoded fund event whose
\* impact reaches the threshold, the liquidity-change alert enters the
\* dispatcher (the send_alert call binds, so a delivery is attempted), and
\* so does the utilization alert when the utilization is at the warning
\* level.
C7_LiquidityAlertDispatched ==
    \A i \in 1..Len(evals) :
        ImpactReachesThreshold(evals[i]) =>
            /\ \E j \in 1..Len(calls) : /\ calls[j].tag = "liquidity"
                                        /\ calls[j].asset = evals[i].asset
                                        /\ calls[j].bound
            /\ evals[i].utilHigh =>
                  \E j \in 1..Len(calls) : /\ calls[j].tag = "utilization"
                                           /\ calls[j].asset = evals[i].asset
                                           /\ calls[j].bound

\* C8: every liquidity-change alert the handler calls comes from an
\* evaluation whose impact reaches the threshold; none is called for an
\* impact strictly below it.
C8_LiquidityAlertOnlyAtThreshold ==
    \A j \in 1..Len(calls) :
        calls[j].tag = "liquidity" =>
            \E i \in 1..Len(evals) :
                /\ \E k \in 1..Len(evals[i].alerts) : evals[i].alerts[k] = calls[j]
                /\ ImpactReachesThreshold(evals[i])

\* a liquidity-change alert was called, for an impact exactly at the
\* threshold (50000000000 of a supply of 1000000000000 at 5.0 percent)
C8_Witness ==
    \E j \in 1..Len(calls) : \E i \in 1..Len(evals) :
        /\ calls[j].tag = "liquidity"
        /\ evals[i].asset = calls[j].asset
        /\ evals[i].amount = Amt(50000, 0)
        /\ evals[i].supply = Amt(1000000, 0)

\* C9: when the handler has decided to notify about an event whose asset
\* has a configured limit, the event notification enters the dispatcher,
\* and it does so as high-risk with the voice flag exactly when
\* amount / 10^decimals >= limit, as standard-risk otherwise.
C9_EscalationIffAtLimit ==
    ( /\ hpc = "done"
      /\ config.NOTIFY_ALL_EVENTS \/ event.event \in {"LiquidationCall", "FlashLoan"}
      /\ ~BuildEventMessageRaises(event)
      /\ NotificationAsset(event) \in DOMAIN TOKEN_DECIMALS )
    => \E j \in 1..Len(calls) :
          /\ calls[j].tag = "event"
          /\ calls[j].bound
          /\ (calls[j].high /\ calls[j].voice)
                <=> ActualAmountAtLeastLimit(EventAmount(event),
                        TOKEN_DECIMALS[NotificationAsset(event)])

\* C10: once the handler is done with an event whose message it could
\* build, an event notification has entered the dispatcher if and only if
\* NOTIFY_ALL_EVENTS is set or the kind is LiquidationCall or FlashLoan.
C10_NotificationIffPolicy ==
    (hpc = "done" /\ ~BuildEventMessageRaises(event)) =>
        ( (\E j \in 1..Len(calls) : calls[j].tag = "event" /\ calls[j].bound)
          <=> (config.NOTIFY_ALL_EVENTS
               \/ event.event \in {"LiquidationCall", "FlashLoan"}) )

-----------------------------------------------------------------------------
(* The delivery cascade: claims C13 to C15 *)

\* the call has returned and none of its requests ended in status 200
AllAttemptsFailed ==
    /\ apc = "returned"
    /\ bark_url
    /\ \A i \in 1..Len(attempts) : attempts[i].outcome # "200"

\* C13: when the POST ends in a status other than 200 the call makes a
\* second attempt before it returns, and a call all of whose attempts
\* failed returns false.
C13_CascadeThenFalse ==
    /\ (apc = "returned" /\ Len(attempts) >= 1 /\ attempts[1].outcome = "non200")
          => Len(attempts) >= 2
    /\ AllAttemptsFailed => result = "False"

\* C14: a call in which the POST and the GET with parameters both failed,
\* by a status other than 200 or by an exception, has attempted the GET of
\* the bare URL by the time it returns.
C14_EveryFailureCascades ==
    ( /\ apc = "returned"
      /\ Len(attempts) >= 2
      /\ attempts[1].outcome # "200"
      /\ attempts[2].outcome # "200" )
    => \E i \in 1..Len(attempts) : attempts[i].stage = "SIMPLE"

\* C15: in one call no request is made after a request that ended in
\* status 200, so a call has at most one successful delivery.
C15_StopsAtFirstSuccess ==
    /\ \A i, j \in 1..Len(attempts) :
          i < j => attempts[i].outcome # "200"
    /\ Cardinality({i \in 1..Len(attempts) : attempts[i].outcome = "200"}) <= 1

\* the POST failed, the GET with parameters succeeded, and the call
\* returned without a third request
C15_Witness ==
    /\ apc = "returned"
    /\ attempts = <<[stage |-> "POST", outcome |-> "non200"],
                    [stage |-> "GET", outcome |-> "200"]>>

-----------------------------------------------------------------------------
(* The state tracker, start-up and the loops: claims C11, C12, C16 to C18 *)

\* C11: a state check whose read differs from the stored address gets the
\* change signal from update_implementation and leaves the stored address
\* equal to the read and lastUpgradeTime equal to the time of the check;
\* and a check made while isFirstRun is true sends no alert, whatever
\* address it reads.
C11_FirstObservationSilent ==
    [][ checks' = checks + 1 =>
          /\ lastChanged' = (lastRead' # state.current_implementation)
          /\ lastRead' # state.current_implementation =>
                /\ state'.current_implementation = lastRead'
                /\ state'.last_upgrade_time = now
          /\ state.is_first_run => runAlerts' = runAlerts ]_vars

\* the first check read an address other than the one initialize stored:
\* the change was signalled and recorded, and no alert was sent
C11_Witness ==
    /\ checks = 1
    /\ lastChanged
    /\ state.current_implementation = lastRead
    /\ state.last_upgrade_time = now
    /\ runAlerts = <<>>

\* C12: a state check made after the first completed one, if the address it
\* reads differs from the stored one, stores it, sets lastUpgradeTime and
\* sends exactly one confirmation alert; if it is equal, it leaves the
\* stored address and lastUpgradeTime alone and sends no alert.
C12_LaterChecksConfirmChange ==
    [][ (checks' = checks + 1 /\ checks >= 1) =>
          IF lastRead' # state.current_implementation
          THEN /\ state'.current_implementation = lastRead'
               /\ state'.last_upgrade_time = now
               /\ runAlerts' = Append(runAlerts, "address_changed")
          ELSE /\ state'.current_implementation = state.current_implementation
               /\ state'.last_upgrade_time = state.last_upgrade_time
               /\ runAlerts' = runAlerts ]_vars

\* the second check read a changed address at a later time: one
\* confirmation alert, the stored address and lastUpgradeTime updated
C12_Witness ==
    /\ checks = 2
    /\ lastChanged
    /\ runAlerts = <<"address_changed">>
    /\ state.current_implementation = lastRead
    /\ state.last_upgrade_time = now
    /\ now > 1

\* C16: once initialize has succeeded neither loop is ever terminated:
\* from the moment run() has started them both tasks are running and run()
\* is awaiting them, whatever raised in their bodies.
C16_LoopsNeverTerminate ==
    initialized = "ok" =>
        /\ pollTask # "terminated"
        /\ checkTask # "terminated"
        /\ runPc # "initialized" =>
              /\ pollTask = "running"
              /\ checkTask = "running"
              /\ runPc = "gather"

\* the head read of a poll cycle raised, state checks have been made, and
\* both loops are running
C16_Witness ==
    /\ initialized = "ok"
    /\ lastRaised = "block_number"
    /\ checks >= 1
    /\ pollTask = "running"
    /\ checkTask = "running"

\* C17: when initialize has failed, exactly one failure alert has been
\* sent, the cursor is still 0, and neither loop has been started.
C17_FailedInitAborts ==
    initialized = "failed" =>
        /\ runAlerts = <<"init_failed">>
        /\ last_checked_block = 0
        /\ pollTask = "not_started"
        /\ checkTask = "not_started"
        /\ runPc \in {"initialized", "returned"}

\* the head read of initialize raised after the RPC test had passed, and
\* run() has returned
C17_Witness ==
    /\ initialized = "failed"
    /\ state.current_implementation # "None"
    /\ runPc = "returned"
    /\ runAlerts = <<"init_failed">>

\* C18: once run() has returned on a failed initialization, async_main
\* eventually returns and the heartbeat task is no longer running.
C18_FailedInitExits ==
    (initialized = "failed" /\ runPc = "returned")
        ~> (mainPc = "returned" /\ heartbeatTask # "running")

-----------------------------------------------------------------------------
(* Decoding: claims C19 and C20 *)

\* the log carries the signature of one of the six tracked events
KnownSignature ==
    /\ rawLog.ntopics >= 1
    /\ rawLog.kind \in {"Supply", "Withdraw", "Borrow", "Repay",
                        "LiquidationCall", "FlashLoan"}

\* C19: every event a log yields for the handler has one of the six kinds,
\* and a log without topics or with a topics[0] outside the six signatures
\* yields no event at all.
C19_OnlySixKinds ==
    /\ \A i \in 1..Len(decoded) :
          decoded[i].event \in {"Supply", "Withdraw", "Borrow", "Repay",
                                "LiquidationCall", "FlashLoan"}
    /\ ~KnownSignature => decoded = <<>>

\* a log of an untracked signature has gone through all six kinds, its
\* topics[0] read with the "0x" prefix of the table's keys, and was dropped
C19_Witness ==
    /\ dpc = "done"
    /\ hexPrefixed
    /\ rawLog.ntopics = 2
    /\ rawLog.kind = "Other"
    /\ rawLog.abi
    /\ decoded = <<>>

\* C20: a log that decodes under the ABI yields a structured event; a log
\* that does not, but whose topics[0] is a known signature, yields an event
\* of the kind the signature table names, which the handler takes as
\* non-structured (is_basic_event).  The second half is stated for the
\* builds in which hex() writes the signature as the table's keys do.
C20_TieredDecoding ==
    dpc = "done" =>
        /\ (KnownSignature /\ rawLog.abi) =>
              \E i \in 1..Len(decoded) :
                 /\ decoded[i].event = rawLog.kind
                 /\ decoded[i].structured
                 /\ ~IsBasicEvent(decoded[i])
        /\ (KnownSignature /\ ~rawLog.abi /\ hexPrefixed) =>
              \E i \in 1..Len(decoded) :
                 /\ decoded[i].event = rawLog.kind
                 /\ ~decoded[i].structured
                 /\ IsBasicEvent(decoded[i])

-----------------------------------------------------------------------------
(* The poll cycle's frame and order: claims C28 to C30 *)

\* C28: a cycle that reads a head not beyond the cursor goes to its sleep
\* having issued no log query and handed no event to the handler, and the
\* cursor is the same from the read until the sleep is over.
C28_IdleCycleTouchesNothing ==
    [][ /\ ( /\ pc = "idle"
             /\ pc' \notin {"idle", "backoff"}
             /\ current_block' <= last_checked_block )
           => /\ pc' = "sleep"
              /\ queriedTo' = {}
              /\ fetchedKinds' = {}
              /\ all_events' = <<>>
              /\ handled' = handled
              /\ last_checked_block' = last_checked_block
        /\ (pc = "sleep" /\ ~advanced)
           => /\ handled' = handled
              /\ last_checked_block' = last_checked_block
              /\ queriedTo' = {} ]_vars

\* a cycle read a head behind the cursor and is in its sleep, events of an
\* earlier cycle having been handled
C28_Witness ==
    /\ pc = "sleep"
    /\ ~advanced
    /\ current_block < last_checked_block
    /\ queriedTo = {}
    /\ handled # <<>>

\* C29: the events handed to the handler so far in a cycle are in the order
\* of their blocks: of two events from the window from_block..to_block, the
\* one from the earlier block is never handled after the one from the later
\* block, whatever their kinds.
C29_HandledInBlockOrder ==
    pc = "handle" =>
        \A i, j \in 1..(evIdx - 1) :
            ( /\ i < j
              /\ all_events[i].blockNumber <= to_block
              /\ all_events[j].blockNumber <= to_block )
            => all_events[i].blockNumber <= all_events[j].blockNumber

\* C30: a log that does not decode under the kind being fetched does not
\* keep the logs after it in the same query from being decoded, and an event
\* in whose handling something raised does not keep the events after it from
\* being handed to the handler: while events of the cycle remain, the next
\* step of the poller hands over the next one, and the loop over the events
\* is left only when none remains.
C30_FailureNeverAbortsBatch ==
    [][ pc = "handle" =>
          /\ \A l1, l2 \in chainLogs :
                ( /\ l1.kind # l2.kind
                  /\ l2.kind \in fetchedKinds
                  /\ from_block <= l1.blockNumber
                  /\ l1.blockNumber < l2.blockNumber
                  /\ \A t \in queriedTo : l2.blockNumber <= t )
                => \E i \in 1..Len(all_events) :
                      /\ all_events[i].blockNumber = l2.blockNumber
                      /\ all_events[i].event = l2.kind
          /\ evIdx <= Len(all_events) =>
                /\ pc' = "handle"
                /\ evIdx' \in {evIdx, evIdx + 1}
                /\ evIdx' = evIdx + 1 =>
                      /\ Len(handled') = Len(handled) + 1
                      /\ handled'[Len(handled')].blockNumber =
                            all_events[evIdx].blockNumber
          /\ pc' # "handle" => evIdx > Len(all_events) ]_vars

\* the Supply query met a FlashLoan log before its Supply log, something
\* raised while the first event of the cycle was handled, and the second
\* event was handed to the handler after it
C30_Witness ==
    /\ pc = "handle"
    /\ Len(all_events) = 2
    /\ evIdx = 3
    /\ all_events[1].event = "Supply"
    /\ all_events[2].event = "FlashLoan"
    /\ all_events[2].blockNumber < all_events[1].blockNumber
    /\ Len(handled) >= 2
    /\ handled[Len(handled) - 1].raised = "notification_alert"
    /\ handled[Len(handled)].blockNumber = all_events[2].blockNumber

-----------------------------------------------------------------------------
(* Enrichment errors: claims C23 and C24 *)

\* the positions in reads of the calls of one stage
ReadsOf(stage) == {i \in 1..Len(reads) : reads[i].stage = stage}

\* C23: for a LiquidationCall whose handling is past check_liquidity, an
\* asset whose read yielded nothing in _get_asset_liquidity_data is not in
\* the liquidity data while the other asset, whose read yielded a snapshot,
\* is, and check_liquidity is entered; in check_liquidity, after a first
\* asset whose read yielded nothing the second asset is read, and every
\* asset whose read yielded a snapshot is evaluated on it.
C23_EnrichmentErrorIsolated ==
    (hpc \in {"notify", "done"} /\ event.event = "LiquidationCall"
        /\ event.shape = "abi") =>
        /\ \A i, j \in ReadsOf("enrich") :
              (reads[i].snap = None /\ reads[j].snap # None
                  /\ reads[i].asset # reads[j].asset)
              => /\ reads[i].asset \notin DOMAIN asset_liquidity_data
                 /\ reads[j].asset \in DOMAIN asset_liquidity_data
                 /\ ReadsOf("check") # {}
        /\ \A i \in ReadsOf("check") :
              (reads[i].snap = None /\ reads[i].idx = 1)
              => \E j \in ReadsOf("check") : reads[j].idx = 2
        /\ \A j \in ReadsOf("check") :
              reads[j].snap # None
              => \E k \in 1..Len(evals) :
                    evals[k] = AssetEval(reads[j].asset, EventAmount(event),
                                         reads[j].snap)

\* check_liquidity could not read the reserve of the collateral asset of a
\* LiquidationCall and evaluated the debt asset on its snapshot
C23_Witness ==
    /\ hpc = "done"
    /\ event.event = "LiquidationCall"
    /\ event.shape = "abi"
    /\ event.args.collateralAsset = "usdc"
    /\ event.args.debtAsset = "wbtc"
    /\ \E i, j \in ReadsOf("check") :
         /\ reads[i].idx = 1
         /\ ~reads[i].r.reserve
         /\ reads[i].snap = None
         /\ reads[j].idx = 2
         /\ reads[j].snap # None
         /\ \E k \in 1..Len(evals) : evals[k].asset = "wbtc"

\* the gateway failed a read of the aToken's or of a debt token's total
\* supply
SupplyReadFailed(r) ==
    r.reserve /\ FailedRead \in {r.supply, r.vdebt, r.sdebt}

\* C24: a get_asset_liquidity call in which the read of the aToken's total
\* supply or of a debt token's total supply failed yields no snapshot, so
\* that nothing is evaluated for the asset from that call.
C24_FailedSupplyReadIsAbsent ==
    \A i \in 1..Len(reads) :
        (reads[i].asset \in DOMAIN TOKEN_DECIMALS /\ SupplyReadFailed(reads[i].r))
        => reads[i].snap = None

-----------------------------------------------------------------------------
(* The pure functions: claims C25 and C27 *)

C27_RoundTripExact ==
    cpc = "reparsed" => cout.value.num = cin.whole * cout.value.den

\* the amount is a whole number of hundredths of the unit it is written in
WholeHundredths(whole) ==
    \/ whole < 1000
    \/ whole < 1000000 /\ whole % 10 = 0
    \/ 1000000 <= whole /\ whole < 1000000000 /\ whole % 10000 = 0
    \/ 1000000000 <= whole /\ whole % 10000000 = 0

\* C27 amended: the round trip gives amount / 10^decimals when that value is
\* a whole number of hundredths of the unit it is written in (any value
\* below 1000; a multiple of 10, of 10^4 or of 10^7 under K, M or B), and
\* otherwise differs from it by at most half a hundredth of the unit.
C27_RoundTripUpToHundredths ==
    cpc = "reparsed" =>
        /\ WholeHundredths(cin.whole)
              => cout.value.num = cin.whole * cout.value.den
        /\ LET step == UnitOf(cout.text.suffix) \div 100
               diff == cout.value.num - cin.whole * cout.value.den
           IN  cout.text.suffix # "" =>
                  /\ 2 * diff <= step
                  /\ 2 * diff >= 0 - step

\* 1010000000 raw USDC was written "1.01K USDC" and read back as 1010
C27_Witness ==
    /\ cpc = "reparsed"
    /\ cin.whole = 1010
    /\ cin.asset = "usdc"
    /\ cout.text.suffix = "K"
    /\ cout.text.hundredths = 101
    /\ cout.value.num = 1010

-----------------------------------------------------------------------------
(* The tasks on the event loop: claims C21, C22 and C26 *)

\* C21: in a poll cycle the delivery attempts follow the order of the
\* events in the list get_all_events returned: an attempt that was begun is
\* ended before another begins, and no attempt caused by a later event of
\* the list comes before one caused by an earlier event.
C21_AlertsInEventOrder ==
    /\ \A i \in 1..Len(attemptLog) :
          (attemptLog[i].phase = "begin" /\ i < Len(attemptLog))
          => /\ attemptLog[i + 1].phase = "end"
             /\ attemptLog[i + 1].ev = attemptLog[i].ev
             /\ attemptLog[i + 1].stage = attemptLog[i].stage
    /\ \A i, j \in 1..Len(attemptLog) :
          i < j => attemptLog[i].ev <= attemptLog[j].ev

\* the alert of the first event went through two attempts and the alert of
\* the second event is being posted
C21_Witness ==
    /\ cycle.n = 2
    /\ tpc["poll"] = "post"
    /\ Len(attemptLog) = 5
    /\ attemptLog[3].ev = 1
    /\ attemptLog[3].stage = "get"
    /\ attemptLog[5] = [ev |-> 2, stage |-> "post", phase |-> "begin"]

\* C22: while a task waits for the outcome of a delivery attempt (a stage
\* of the alert cascade or the heartbeat's post), the event loop can run
\* each of the other tasks.
C22_NoTaskBlocksAnother ==
    \A t \in Tasks :
        tpc[t] \in AttemptStages => \A u \in Tasks \ {t} : Runnable(u)

\* C26: once the loops are running, a step that changes last_checked_block
\* is a step of the poll task (its position changes) and a step that
\* changes a field of the ContractState is a step of the state-check task,
\* in every interleaving.
C26_SingleWriter ==
    [][ /\ last_checked_block' # last_checked_block
           => /\ tpc'["poll"] # tpc["poll"]
              /\ tpc'["check"] = tpc["check"]
              /\ tpc'["heartbeat"] = tpc["heartbeat"]
        /\ state' # state
           => /\ tpc'["check"] # tpc["check"]
              /\ tpc'["poll"] = tpc["poll"]
              /\ tpc'["heartbeat"] = tpc["heartbeat"] ]_vars

\* the poll task has moved the cursor while the state check, having stored
\* a new address, was waiting for its alert's delivery
C26_Witness ==
    /\ last_checked_block > h0
    /\ tpc["poll"] = "sleep"
    /\ tpc["check"] = "post"
    /\ state.current_implementation = "0xB"
    /\ ~state.is_first_run

-----------------------------------------------------------------------------
(* Fallback-decoded events in the handler: claim C31 *)

\* C31: an event produced by fallback decoding, with or without the
\* topic-derived address argument, is processed as a basic event: once the
\* handler is done with it no reserve was read, no asset was evaluated
\* against the thresholds, and no event-handling-error alert was sent for
\* it.
C31_FallbackIsBasic ==
    (hpc = "done" /\ event.shape \in {"basic_empty", "basic_address"}) =>
        /\ reads = <<>>
        /\ evals = <<>>
        /\ \A j \in 1..Len(calls) : calls[j].tag # "handler_error"

-----------------------------------------------------------------------------
(* The first-run flag: claim C32 *)

\* C32: is_first_run is true from startup until the first
\* check_contract_state completes without error, and false in every state
\* afterwards; a check whose address read raises leaves is_first_run and
\* the stored address unchanged; and a change of address goes without its
\* confirmation alert in the first completed check only, so at most once
\* in a run.
C32_FirstRunUntilFirstCheck ==
    /\ [](state.is_first_run <=> checks = 0)
    /\ [][ runAlerts' = Append(runAlerts, "check_failed") =>
             /\ state'.is_first_run = state.is_first_run
             /\ state'.current_implementation = state.current_implementation
             /\ checks' = checks ]_vars
    /\ [][ ( /\ checks' = checks + 1
             /\ lastChanged'
             /\ runAlerts' = runAlerts ) => checks = 0 ]_vars

\* the address read of the very first check raised, then a check completed
\* and suppressed a change of address, and a later check confirmed another
C32_Witness ==
    /\ checks = 2
    /\ ~state.is_first_run
    /\ runAlerts = <<"check_failed", "address_changed">>
    /\ state.current_implementation = "0xA"

-----------------------------------------------------------------------------
(* The two timers: claim C33 *)

\* C33: under fair scheduling check_contract_state is executed infinitely
\* often whatever the poller is doing (idle sleep, scanning, error
\* backoff, a delivery), and the poll cycle is started infinitely often
\* whatever the state checker is doing.
C33_IndependentTimers ==
    /\ []<>(<<TaskCheck>>_vars)
    /\ []<>(<<TaskPollRead>>_vars)

\* the state check has read the address while the poller, whose head read
\* raised, is in its error backoff
C33_Witness ==
    /\ tpc["poll"] = "backoff"
    /\ tpc["check"] = "finish"

-----------------------------------------------------------------------------
(* The fields read from an event: claims C34 and C35 *)

\* the field is an attribute of the event's args
Present(e, f) == e.shape = "abi" /\ f \in DOMAIN e.args

\* C34: the asset addresses of an event are the reserve alone when a
\* reserve field is present, whatever other fields exist; else the asset
\* alone when an asset field is present; else collateralAsset then
\* debtAsset when both are present; and none when none of the three shapes
\* is present.
C34_AssetPrecedence ==
    cpc = "fields" =>
        LET e == cin.ev
            pair == Present(e, "collateralAsset") /\ Present(e, "debtAsset")
        IN  /\ Present(e, "reserve") => cout.addresses = <<e.args.reserve>>
            /\ (~Present(e, "reserve") /\ Present(e, "asset"))
                  => cout.addresses = <<e.args.asset>>
            /\ (~Present(e, "reserve") /\ ~Present(e, "asset") /\ pair)
                  => cout.addresses = <<e.args.collateralAsset,
                                        e.args.debtAsset>>
            /\ (~Present(e, "reserve") /\ ~Present(e, "asset") /\ ~pair)
                  => cout.addresses = <<>>

\* an event holding a reserve, an asset and the liquidation pair gave the
\* reserve alone
C34_Witness ==
    /\ cpc = "fields"
    /\ {"reserve", "asset", "collateralAsset", "debtAsset"}
          \subseteq DOMAIN cin.ev.args
    /\ cin.ev.shape = "abi"
    /\ cout.addresses = <<"usdc">>

\* C35: the principal amount of an event is the first present of amount,
\* debtToCover and value, and zero when none is present; check_liquidity
\* and the notification's escalation decision derive the same amount.
C35_AmountPrecedence ==
    cpc = "fields" =>
        LET e == cin.ev
        IN  /\ Present(e, "amount") => cout.check_amount = e.args.amount
            /\ (~Present(e, "amount") /\ Present(e, "debtToCover"))
                  => cout.check_amount = e.args.debtToCover
            /\ ( /\ ~Present(e, "amount") /\ ~Present(e, "debtToCover")
                 /\ Present(e, "value") )
                  => cout.check_amount = e.args.value
            /\ ( /\ ~Present(e, "amount") /\ ~Present(e, "debtToCover")
                 /\ ~Present(e, "value") )
                  => cout.check_amount = AmtZero
            /\ cout.notify_amount = cout.check_amount

\* an event holding debtToCover and value but no amount gave debtToCover,
\* in check_liquidity and for the notification
C35_Witness ==
    /\ cpc = "fields"
    /\ cin.ev.shape = "abi"
    /\ "amount" \notin DOMAIN cin.ev.args
    /\ {"debtToCover", "value"} \subseteq DOMAIN cin.ev.args
    /\ cout.check_amount = Amt(50000, 0)
    /\ cout.notify_amount = Amt(50000, 0)

-----------------------------------------------------------------------------
(* The amount of a liquidation: claim C36 *)

\* C36: for a LiquidationCall, every asset evaluated in check_liquidity with
\* a positive amount on a positive total supply (the impact is a division
\* of the one by the other, and the limit of that asset is the one
\* compared) is the asset the amount is denominated in: debtToCover is an
\* amount of the debt asset, so the asset is the debt asset.
C36_AmountInItsOwnAsset ==
    (event.event = "LiquidationCall" /\ event.shape = "abi") =>
        \A i \in 1..Len(evals) :
            ( /\ evals[i].amount = event.args.debtToCover
              /\ AmtPos(evals[i].amount)
              /\ AmtPos(evals[i].supply) )
            => evals[i].asset = event.args.debtAsset

-----------------------------------------------------------------------------
(* The confirmation alert's addresses: claim C37 *)

\* C37: when a state check sends the confirmation alert of an
\* implementation change, the previous address the alert reports is the
\* address that was stored before the check, and it differs from the new
\* address the alert reports.
C37_ConfirmationReportsPrevious ==
    [][ runAlerts' = Append(runAlerts, "address_changed") =>
          /\ confirmation'.previous = state.current_implementation
          /\ confirmation'.previous # confirmation'.new ]_vars

-----------------------------------------------------------------------------
(* One log under the six queries: claim C38 *)

\* C38: a raw log, met once in each of the six unfiltered queries of a
\* get_all_events call, yields at most one event in the result, and that
\* event is of the kind the log structurally decodes as or, on fallback,
\* of the kind its topics[0] names; it is added under that kind's query
\* and under no other.
C38_OneEventPerLog ==
    /\ Len(decoded) <= 1
    /\ \A i \in 1..Len(decoded) :
          /\ decoded[i].event = rawLog.kind
          /\ \E j \in 1..(dIdx - 1) : key_events[j] = decoded[i].event

\* a FlashLoan log that only the fallback decodes went through the six
\* queries and gave one event, under the last of them
C38_Witness ==
    /\ dpc = "done"
    /\ rawLog.kind = "FlashLoan"
    /\ ~rawLog.abi
    /\ rawLog.ntopics = 2
    /\ Len(decoded) = 1
    /\ ~decoded[1].structured

-----------------------------------------------------------------------------
(* The logs before the start: claim C39 *)

\* C39: after initialize has set the cursor to the head h0 it read, no log
\* of a block at or before h0 is ever handed to the event handler, and
\* every log query of a cycle starts at the block after the cursor.
C39_NothingBeforeStart ==
    /\ \A i \in 1..Len(handled) : handled[i].blockNumber > h0
    /\ pc \in {"scan", "handle"} => from_block = last_checked_block + 1

\* the contract had emitted a log in block h0; a cycle has handled a later
\* log and moved the cursor
C39_Witness ==
    /\ \E l \in chainLogs : l.blockNumber <= h0 /\ l.kind \in KeyKinds
    /\ Len(handled) >= 1
    /\ pc = "sleep"
    /\ advanced
    /\ last_checked_block > h0

-----------------------------------------------------------------------------
(* The heartbeats of a day: claim C40 *)

\* C40: whatever the hours at which _check_heartbeat is called, the clock
\* never going back, each of the morning, noon and evening heartbeats is
\* sent at most once in a calendar day; and a period's sent flag goes from
\* set to clear only in a check made before 08:00 or, for noon and
\* evening, in the check that sends the morning heartbeat.
C40_OncePerDay ==
    /\ [](\A d \in 1..MaxDays : \A p \in Periods : heartbeats[d][p] <= 1)
    /\ [][ \A p \in Periods :
             (sentFlags[p] /\ ~sentFlags'[p]) =>
                \/ wallClock.hour < 8
                \/ /\ p \in {"noon", "evening"}
                   /\ heartbeats'[wallClock.day]["morning"]
                         = heartbeats[wallClock.day]["morning"] + 1 ]_vars

\* the noon heartbeat was sent on the first day, the flags were never reset
\* before 08:00 of the second day, the morning heartbeat of that day
\* cleared the noon flag, and the noon heartbeat was sent again that day
C40_Witness ==
    /\ wallClock.day = 2
    /\ heartbeats[1]["noon"] = 1
    /\ heartbeats[1]["morning"] = 0
    /\ heartbeats[2]["morning"] = 1
    /\ heartbeats[2]["noon"] = 1
    /\ sentFlags.noon

====
